---------------------------- MODULE Spec2Model ----------------------------
(***************************************************************************)
(* A model of the analytics and forecasting engine of mozg-analytics:      *)
(*   - MenuAnalysisService.abc_analysis      (services/reports/menu.py)    *)
(*   - AnomalyDetectionService               (services/forecasting/        *)
(*                                            anomaly.py)                  *)
(*   - BasketAnalysisService                 (services/analytics/          *)
(*                                            basket.py)                   *)
(* Every analyzer is a function of a snapshot read from the database, so   *)
(* each has a specification of its own: Init draws the snapshot and the    *)
(* request parameters from bounded sets and one action per branch of the   *)
(* handler computes the result the code computes.                          *)
(*                                                                         *)
(* Numbers.  Money, quantities and counts are integers.  A Decimal that    *)
(* the code rounds to k places is an integer number of 10^-k units, and    *)
(* rounding is ROUND_HALF_EVEN as in Python's decimal module.              *)
(***************************************************************************)
EXTENDS Integers, Sequences, FiniteSets

VARIABLES
    pc,            \* which analyzer runs and how far it got
    sales_data,    \* abc_analysis: rows of get_product_sales, in SQL order
    metric,        \* abc_analysis: the metric argument
    abc_result,    \* abc_analysis: the ABCAnalysisResult returned
    z_score,       \* _get_severity: the z_score argument
    severity,      \* _get_severity: the value returned
    data,          \* detect_daily_anomalies: rows of get_daily_metrics, by date
    anomalies,     \* detect_daily_anomalies: the list returned
    receipt_products, \* calculate_product_pairs: the receipts read, as runs
    min_support,   \* calculate_product_pairs: argument, a Decimal num / den
    min_occurrences, \* calculate_product_pairs: argument
    limit,         \* calculate_product_pairs: argument
    pairs,         \* calculate_product_pairs: the local list before [:limit]
    product_pairs, \* calculate_product_pairs: the list returned; the
                   \* argument of generate_cross_sell_recommendations
    prices,        \* generate_cross_sell_recommendations: Product.price by id
    min_confidence, \* generate_cross_sell_recommendations: argument
    min_lift,      \* generate_cross_sell_recommendations: argument
    recommendations, \* generate_cross_sell_recommendations: the sorted local list
    unique_recs,   \* generate_cross_sell_recommendations: the list returned
    history,       \* forecasting: data['y'], the daily history, as runs
    horizon_days,  \* forecasting: the number of days to forecast
    prophet,       \* forecasting: what Prophet does when fitted on history
    today,         \* forecasting: date.today(), as a day number
    forecast_points, \* forecasting: the future points returned
    historical_points, \* forecast_revenue: the points of the history
    forecast_confidence, \* _forecast_product: the confidence returned
    raised,        \* forecasting: the exception that reached the caller
    model_fitted,  \* forecasting: whether model.fit was called
    http_status,   \* the status of the response of a route
    actual,        \* _calculate_accuracy: the actual series
    predicted,     \* _calculate_accuracy: the predicted series
    accuracy,      \* _calculate_accuracy: the ForecastAccuracy returned
    first_output,  \* an analyzer called twice: what the first call returned
    second_output, \* an analyzer called twice: what the second call returned
    margin_threshold, \* go_list: the margin_threshold argument
    go_list_result, \* go_list: the items of the GoListResult returned
    daily_quantities, \* xyz_analysis: product_daily_sales, in dict order
    products_xyz,  \* xyz_analysis: the list returned
    detected,      \* generate_report: what the three detectors return
    include_products, \* generate_report: argument
    include_hourly, \* generate_report: argument
    report,        \* generate_report: the AnomalyReport returned
    hourly_data,   \* detect_hourly_anomalies: the rows read, in SQL order
    hourly_anomalies, \* detect_hourly_anomalies: the list returned
    baskets,       \* calculate_basket_profile: the rows read, one per receipt
    basket_profile, \* calculate_basket_profile: the BasketProfile returned
    trend_data,    \* _calculate_trend: the y column of its data argument
    trend,         \* _calculate_trend: the pair returned
    sync_db,       \* sync: the committed row of the venue
    sync_request,  \* sync: the trigger_sync request and its session
    sync_task,     \* sync: the sync_venue_data task and its session
    sync_queue     \* sync: the tasks enqueued and not yet started

abc_vars == <<sales_data, metric, abc_result>>

severity_vars == <<z_score, severity>>

daily_vars == <<data, anomalies>>

basket_vars ==
    <<receipt_products, min_support, min_occurrences, limit, pairs, product_pairs>>

cross_sell_vars ==
    <<prices, min_confidence, min_lift, recommendations, unique_recs>>

\* the variables of the analyzers modelled after calculate_product_pairs
forecast_vars ==
    <<history, horizon_days, prophet, today, forecast_points, historical_points,
      forecast_confidence, raised, model_fitted, http_status>>

accuracy_vars == <<actual, predicted, accuracy>>

rerun_vars == <<first_output, second_output>>

go_list_vars == <<margin_threshold, go_list_result>>

xyz_vars == <<daily_quantities, products_xyz>>

report_vars == <<detected, include_products, include_hourly, report>>

hourly_vars == <<hourly_data, hourly_anomalies>>

profile_vars == <<baskets, basket_profile>>

sync_vars == <<sync_db, sync_request, sync_task, sync_queue>>

trend_vars == <<trend_data, trend>>

final_vars ==
    <<xyz_vars, report_vars, hourly_vars, profile_vars, trend_vars, sync_vars>>

later_vars == <<accuracy_vars, rerun_vars, go_list_vars, final_vars>>

other_vars == <<cross_sell_vars, forecast_vars, later_vars>>

vars == <<pc, abc_vars, severity_vars, daily_vars, basket_vars, other_vars>>

Null == "null"

\* the variables of calculate_product_pairs while another analyzer runs
BasketIdle ==
    /\ receipt_products = Null /\ min_support = Null /\ min_occurrences = Null
    /\ limit = Null /\ pairs = Null /\ product_pairs = Null

CrossSellIdle ==
    /\ prices = Null /\ min_confidence = Null /\ min_lift = Null
    /\ recommendations = Null /\ unique_recs = Null

ForecastIdle ==
    /\ history = Null /\ horizon_days = Null /\ prophet = Null /\ today = Null
    /\ forecast_points = Null /\ historical_points = Null
    /\ forecast_confidence = Null
    /\ raised = Null /\ model_fitted = Null /\ http_status = Null

AccuracyIdle == actual = Null /\ predicted = Null /\ accuracy = Null

RerunIdle == first_output = Null /\ second_output = Null

GoListIdle == margin_threshold = Null /\ go_list_result = Null

XyzIdle == daily_quantities = Null /\ products_xyz = Null

ReportIdle ==
    /\ detected = Null /\ include_products = Null /\ include_hourly = Null
    /\ report = Null

HourlyIdle == hourly_data = Null /\ hourly_anomalies = Null

ProfileIdle == baskets = Null /\ basket_profile = Null

TrendIdle == trend_data = Null /\ trend = Null

SyncIdle ==
    /\ sync_db = Null /\ sync_request = Null /\ sync_task = Null
    /\ sync_queue = Null

FinalIdle ==
    XyzIdle /\ ReportIdle /\ HourlyIdle /\ ProfileIdle /\ TrendIdle /\ SyncIdle

LaterIdle == AccuracyIdle /\ RerunIdle /\ GoListIdle /\ FinalIdle

OthersIdle == CrossSellIdle /\ ForecastIdle /\ LaterIdle

-----------------------------------------------------------------------------
(* Arithmetic helpers                                                      *)

Abs(x) == IF x < 0 THEN -x ELSE x

Max(a, b) == IF a >= b THEN a ELSE b

\* f[1] + ... + f[n]
RECURSIVE SumUpTo(_, _)
SumUpTo(f, n) == IF n = 0 THEN 0 ELSE f[n] + SumUpTo(f, n - 1)

SumSeq(s) == SumUpTo(s, Len(s))

\* n / d rounded to the nearest integer, ties to the even neighbour
\* (decimal.ROUND_HALF_EVEN, the rounding of Decimal division, round() and
\* quantize()).  d > 0; n of either sign.
RoundHalfEven(n, d) ==
    LET q == n \div d
        r == n % d
    IN  IF 2 * r < d THEN q
        ELSE IF 2 * r > d THEN q + 1
        ELSE IF q % 2 = 0 THEN q ELSE q + 1

\* The indices of keys ordered as list.sort(key=..., reverse=True) orders
\* them: by key descending, equal keys in their original order (the sort is
\* stable).
SortDescStable(keys) ==
    LET n == Len(keys)
        Rank(i) == Cardinality({j \in 1..n :
                        keys[j] > keys[i] \/ (keys[j] = keys[i] /\ j < i)}) + 1
    IN  [r \in 1..n |-> CHOOSE i \in 1..n : Rank(i) = r]


-----------------------------------------------------------------------------
(* MenuAnalysisService.abc_analysis                                        *)
(*                                                                         *)
(* A row of get_product_sales is [product_id, quantity, revenue, cost].    *)
(* Percentages are Decimals; the model keeps them in units of 10^-4        *)
(* percent (the code's Decimal context keeps 28 significant digits) and    *)
(* the fields the code rounds to 2 places in units of 0.01.                *)

MaxProducts == 3

RevenueValues == {0, 1, 3, 16}

CostValues == {0, 2}

QuantityValues == {1, 4}

Metrics == {"revenue", "profit", "quantity"}

PercentScale == 100 * 100

ABC_A_THRESHOLD == 80

ABC_B_THRESHOLD == 95

\* item["profit"] = revenue - cost, with a missing cost counted as 0
ItemProfit(item) == item.revenue - item.cost

\* item[metric_key]; every metric other than profit and quantity takes the
\* revenue branch
MetricValue(item, m) ==
    IF m = "profit" THEN ItemProfit(item)
    ELSE IF m = "quantity" THEN item.quantity
    ELSE item.revenue

\* sales_data after the sort of the chosen branch: profit and quantity sort
\* in place, descending and stable; the revenue branch keeps the SQL order
SortedSales(sales, m) ==
    IF m = "profit" \/ m = "quantity"
    THEN LET order == SortDescStable([i \in 1..Len(sales) |-> MetricValue(sales[i], m)])
         IN  [r \in 1..Len(sales) |-> sales[order[r]]]
    ELSE sales

TotalRevenue(sales) == SumSeq([i \in 1..Len(sales) |-> sales[i].revenue])

TotalProfit(sales) == SumSeq([i \in 1..Len(sales) |-> ItemProfit(sales[i])])

TotalMetric(sales, m) == SumSeq([i \in 1..Len(sales) |-> MetricValue(sales[i], m)])

\* metric_percent = (metric_value / total_metric * 100) if total_metric > 0
\* else Decimal("0")
MetricPercent(value, total) ==
    IF total > 0 THEN RoundHalfEven(value * 100 * PercentScale, total) ELSE 0

\* the running variable cumulative after the item at position i was added
Cumulative(sorted, m, total, i) ==
    SumSeq([j \in 1..i |-> MetricPercent(MetricValue(sorted[j], m), total)])

\* AbcCategoryOf with the thresholds compared strictly
AbcCategoryOf_Strict(cumulative) ==
    IF cumulative < ABC_A_THRESHOLD * PercentScale THEN "A"
    ELSE IF cumulative < ABC_B_THRESHOLD * PercentScale THEN "B"
    ELSE "C"

\* the if / elif / else on cumulative
AbcCategoryOf(cumulative) ==
    IF cumulative <= ABC_A_THRESHOLD * PercentScale THEN "A"
    ELSE IF cumulative <= ABC_B_THRESHOLD * PercentScale THEN "B"
    ELSE "C"

\* round(x, 2) of a value held in units of 10^-4
Round2(x) == RoundHalfEven(x, PercentScale \div 100)

\* round((num / den * 100) if den > 0 else Decimal("0"), 2)
PercentOf2(num, den) ==
    IF den > 0 THEN RoundHalfEven(num * 100 * 100, den) ELSE 0

\* the ProductABC built for the item at position i of the sorted rows;
\* cumulative is the unrounded running value the category was decided on
ProductABC(sorted, m, total_metric, total_revenue, i) ==
    LET item == sorted[i]
        cumulative == Cumulative(sorted, m, total_metric, i)
    IN  [ product_id         |-> item.product_id,
          quantity           |-> item.quantity,
          revenue            |-> item.revenue,
          cost               |-> item.cost,
          profit             |-> ItemProfit(item),
          margin_percent     |-> PercentOf2(ItemProfit(item), item.revenue),
          revenue_percent    |-> PercentOf2(item.revenue, total_revenue),
          cumulative         |-> cumulative,
          cumulative_percent |-> Round2(cumulative),
          abc_category       |-> AbcCategoryOf(cumulative) ]

\* the summary of the products in category cat or a better one
AbcSummary_UpTo(products, total_revenue, cat) ==
    LET In(i) == products[i].abc_category = cat \/ products[i].abc_category = "A"
        revs  == [i \in 1..Len(products) |-> IF In(i) THEN products[i].revenue ELSE 0]
        profs == [i \in 1..Len(products) |-> IF In(i) THEN products[i].profit ELSE 0]
    IN  [ count   |-> Cardinality({i \in 1..Len(products) : In(i)}),
          revenue |-> SumSeq(revs),
          profit  |-> SumSeq(profs),
          revenue_percent |-> PercentOf2(SumSeq(revs), total_revenue) ]

\* summary[cat] of the products in category cat
AbcSummary(products, total_revenue, cat) ==
    LET revs == [i \in 1..Len(products) |->
                    IF products[i].abc_category = cat THEN products[i].revenue ELSE 0]
        profs == [i \in 1..Len(products) |->
                    IF products[i].abc_category = cat THEN products[i].profit ELSE 0]
    IN  [ count   |-> Cardinality({i \in 1..Len(products) :
                                        products[i].abc_category = cat}),
          revenue |-> SumSeq(revs),
          profit  |-> SumSeq(profs),
          revenue_percent |-> PercentOf2(SumSeq(revs), total_revenue) ]

\* the ABCAnalysisResult of a non-empty sales_data
AbcResultOf(sales, m) ==
    LET sorted == SortedSales(sales, m)
        total_revenue == TotalRevenue(sales)
        total_metric == TotalMetric(sales, m)
        products == [i \in 1..Len(sorted) |->
                        ProductABC(sorted, m, total_metric, total_revenue, i)]
    IN  [ products      |-> products,
          summary       |-> [c \in {"A", "B", "C"} |->
                                AbcSummary(products, total_revenue, c)],
          total_revenue |-> total_revenue,
          total_profit  |-> TotalProfit(sales),
          total_metric  |-> total_metric ]

\* The rows get_product_sales can return: one row per product, ordered by
\* revenue descending (ORDER BY sum(total) DESC), rows of equal revenue in
\* any order.
SalesRows == [revenue : RevenueValues, cost : CostValues, quantity : QuantityValues]

\* rows in the order ORDER BY sum(total) DESC can give them
RevenueDescending(rows) ==
    \A i \in 1..Len(rows) : \A j \in 1..Len(rows) :
        i < j => rows[i].revenue >= rows[j].revenue

WithProductId(rows) ==
    [i \in 1..Len(rows) |->
        [product_id |-> i, quantity |-> rows[i].quantity,
         revenue |-> rows[i].revenue, cost |-> rows[i].cost]]

InitAbc ==
    /\ pc = "abc_start"
    /\ \E n \in 0..MaxProducts : \E rows \in [1..n -> SalesRows] :
            /\ RevenueDescending(rows)
            /\ sales_data = WithProductId(rows)
    /\ metric \in Metrics
    /\ abc_result = Null
    /\ z_score = Null /\ severity = Null
    /\ data = Null /\ anomalies = Null
    /\ BasketIdle
    /\ OthersIdle

\* if not sales_data: return ABCAnalysisResult(products=[], summary={})
abc_analysis_empty ==
    /\ pc = "abc_start"
    /\ sales_data = <<>>
    /\ abc_result' = [ products |-> <<>>, summary |-> <<>>,
                       total_revenue |-> 0, total_profit |-> 0, total_metric |-> 0 ]
    /\ pc' = "abc_done"
    /\ UNCHANGED <<sales_data, metric, severity_vars, daily_vars, basket_vars, other_vars>>

abc_analysis ==
    /\ pc = "abc_start"
    /\ sales_data # <<>>
    /\ abc_result' = AbcResultOf(sales_data, metric)
    /\ pc' = "abc_done"
    /\ UNCHANGED <<sales_data, metric, severity_vars, daily_vars, basket_vars, other_vars>>

NextAbc == abc_analysis_empty \/ abc_analysis

SpecAbc == InitAbc /\ [][NextAbc]_vars


-----------------------------------------------------------------------------
(* Claims about abc_analysis                                               *)

AbcDone == pc = "abc_done" /\ Len(abc_result.products) > 0

\* C1: for any non-empty list of product aggregates and any metric, the
\* cumulative_percent values of the returned products are non-decreasing
\* in output order and the last one is 100 (within rounding, 0.01).
\* Stated for the inputs with a positive metric total: with a total of 0
\* every percentage is 0 by the rule of C3 and the last one cannot be 100.
C1_CumulativeNonDecreasingTo100 ==
    (AbcDone /\ abc_result.total_metric > 0) =>
        LET ps == abc_result.products
        IN  /\ \A i \in 1..Len(ps) : \A j \in 1..Len(ps) :
                   i < j => ps[i].cumulative_percent <= ps[j].cumulative_percent
            /\ Abs(ps[Len(ps)].cumulative_percent - 100 * 100) <= 1

\* the value of the chosen metric of a returned product
OutMetricValue(p) ==
    IF metric = "profit" THEN p.profit
    ELSE IF metric = "quantity" THEN p.quantity
    ELSE p.revenue

\* the percentages of the metric total of the first i returned products,
\* added up
RunningPercent(ps, i) ==
    LET total == SumSeq([j \in 1..Len(ps) |-> OutMetricValue(ps[j])])
    IN  SumSeq([j \in 1..i |->
            IF total > 0
            THEN RoundHalfEven(OutMetricValue(ps[j]) * 100 * PercentScale, total)
            ELSE 0])

\* C2: every product's category is determined only by the running
\* cumulative percentage that includes that product: A iff cumulative <= 80,
\* B iff 80 < cumulative <= 95, C iff cumulative > 95.
C2_CategoryByCumulative ==
    AbcDone =>
        LET ps == abc_result.products
        IN  \A i \in 1..Len(ps) :
                LET c == RunningPercent(ps, i)
                IN  /\ ps[i].cumulative = c
                    /\ (ps[i].abc_category = "A") <=> (c <= 80 * PercentScale)
                    /\ (ps[i].abc_category = "B") <=>
                            (80 * PercentScale < c /\ c <= 95 * PercentScale)
                    /\ (ps[i].abc_category = "C") <=> (c > 95 * PercentScale)

\* a result with a product exactly at 80% (in A), one exactly at 95% (in B)
\* and one above (in C)
C2_Witness ==
    /\ AbcDone
    /\ \E i, j, k \in 1..Len(abc_result.products) :
        LET ps == abc_result.products
        IN  /\ ps[i].cumulative = 80 * PercentScale /\ ps[i].abc_category = "A"
            /\ ps[j].cumulative = 95 * PercentScale /\ ps[j].abc_category = "B"
            /\ ps[k].cumulative > 95 * PercentScale /\ ps[k].abc_category = "C"

\* C3: when the total of the chosen metric over all products is 0, every
\* product gets a metric percentage of 0 and category C.
C3_ZeroTotalAllC ==
    (AbcDone /\ abc_result.total_metric = 0) =>
        \A i \in 1..Len(abc_result.products) :
            /\ abc_result.products[i].cumulative = 0
            /\ abc_result.products[i].abc_category = "C"


-----------------------------------------------------------------------------
(* AnomalyDetectionService: _calculate_z_score, _get_severity,             *)
(* _detect_metric_anomalies, detect_daily_anomalies                        *)
(*                                                                         *)
(* The daily values are integers (money in minor units, counts).  The      *)
(* statistics of a window of n values are held exactly:                    *)
(*   np.mean = num / den              with num = sum,  den = n             *)
(*   np.std  = sqrt(rad) / den        with rad = n * sumsq - sum^2         *)
(* and a z-score as num / sqrt(den2), so that abs(z) >= t is decided by    *)
(* num^2 >= t^2 * den2 without taking a root.                              *)

WINDOW == 14

Z_THRESHOLDS == [low |-> 2, medium |-> 3, high |-> 4, critical |-> 5]

NpMean(values) == [num |-> SumSeq(values), den |-> Len(values)]

NpStd(values) ==
    LET sum == SumSeq(values)
        sumsq == SumSeq([i \in 1..Len(values) |-> values[i] * values[i]])
    IN  [rad |-> Len(values) * sumsq - sum * sum, den |-> Len(values)]

\* if std == 0: return 0;  return (value - mean) / std.
\* mean and std are those of one window and share its denominator.
calculate_z_score(value, mean, std) ==
    IF std.rad = 0 THEN [num |-> 0, den2 |-> 1]
    ELSE [num |-> value * mean.den - mean.num, den2 |-> std.rad]

\* abs(z_score) >= threshold
AbsAtLeast(z, threshold) ==
    Abs(z.num) * Abs(z.num) >= threshold * threshold * z.den2

\* get_severity comparing z_score itself and not its absolute value
get_severity_NoAbs(z) ==
    IF z.num >= 0 /\ AbsAtLeast(z, Z_THRESHOLDS.critical) THEN "critical"
    ELSE IF z.num >= 0 /\ AbsAtLeast(z, Z_THRESHOLDS.high) THEN "high"
    ELSE IF z.num >= 0 /\ AbsAtLeast(z, Z_THRESHOLDS.medium) THEN "medium"
    ELSE IF z.num >= 0 /\ AbsAtLeast(z, Z_THRESHOLDS.low) THEN "low"
    ELSE Null

\* get_severity testing the high threshold before the critical one
get_severity_HighFirst(z) ==
    IF AbsAtLeast(z, Z_THRESHOLDS.high) THEN "high"
    ELSE IF AbsAtLeast(z, Z_THRESHOLDS.critical) THEN "critical"
    ELSE IF AbsAtLeast(z, Z_THRESHOLDS.medium) THEN "medium"
    ELSE IF AbsAtLeast(z, Z_THRESHOLDS.low) THEN "low"
    ELSE Null

\* _get_severity: the highest threshold abs(z_score) reaches, None below the
\* lowest
get_severity(z) ==
    IF AbsAtLeast(z, Z_THRESHOLDS.critical) THEN "critical"
    ELSE IF AbsAtLeast(z, Z_THRESHOLDS.high) THEN "high"
    ELSE IF AbsAtLeast(z, Z_THRESHOLDS.medium) THEN "medium"
    ELSE IF AbsAtLeast(z, Z_THRESHOLDS.low) THEN "low"
    ELSE Null

\* n / d rounded half-even, for d of either sign (d # 0)
DivRound(n, d) == IF d > 0 THEN RoundHalfEven(n, d) ELSE RoundHalfEven(-n, -d)

\* the window taken as values[i-window+1:i+1], the value judged included
WindowValues_Inclusive(values, pos) == SubSeq(values, pos - WINDOW + 1, pos)

\* window_values = values[i-window:i] of the 0-based index i, which is the
\* 1-based position i + 1: the positions i - WINDOW + 1 .. i of values
WindowValues(values, pos) == SubSeq(values, pos - WINDOW, pos - 1)

\* the two anomaly types exchanged
AnomalyTypeOf_Swapped(z, anomaly_type_positive, anomaly_type_negative) ==
    IF z.num > 0 THEN anomaly_type_negative ELSE anomaly_type_positive

\* anomaly_type = anomaly_type_positive if z_score > 0 else
\* anomaly_type_negative
AnomalyTypeOf(z, anomaly_type_positive, anomaly_type_negative) ==
    IF z.num > 0 THEN anomaly_type_positive ELSE anomaly_type_negative

\* One iteration of the loop of _detect_metric_anomalies, for the value at
\* position pos: <<>> where the loop continues, else the anomaly appended.
\* actual_value and expected_value are in units of 0.01, deviation_percent
\* in units of 0.1; z_score is kept exact (the code quantizes it to 0.01).
\* The texts (description, possible_causes, recommended_actions) are left
\* out.
DetectAt(values, dates, pos, anomaly_type_positive, anomaly_type_negative, metric_name) ==
    LET window_values == WindowValues(values, pos)
        mean == NpMean(window_values)
        std == NpStd(window_values)
        z == calculate_z_score(values[pos], mean, std)
        sev == get_severity(z)
    IN  IF std.rad = 0 THEN <<>>
        ELSE IF sev = Null THEN <<>>
        ELSE << [ anomaly_type      |-> AnomalyTypeOf(z, anomaly_type_positive,
                                                      anomaly_type_negative),
                  severity          |-> sev,
                  date              |-> dates[pos],
                  hour              |-> Null,
                  actual_value      |-> values[pos] * 100,
                  expected_value    |-> RoundHalfEven(mean.num * 100, mean.den),
                  deviation_percent |->
                      IF mean.num # 0
                      THEN DivRound((values[pos] * mean.den - mean.num) * 1000,
                                    mean.num)
                      ELSE 0,
                  z_score           |-> z,
                  metric_name       |-> metric_name ] >>

RECURSIVE DetectFrom(_, _, _, _, _, _)
DetectFrom(values, dates, pos, anomaly_type_positive, anomaly_type_negative, metric_name) ==
    IF pos > Len(values) THEN <<>>
    ELSE DetectAt(values, dates, pos, anomaly_type_positive,
                  anomaly_type_negative, metric_name)
         \o DetectFrom(values, dates, pos + 1, anomaly_type_positive,
                       anomaly_type_negative, metric_name)

\* _detect_metric_anomalies(data, metric, ...): for i in range(window,
\* len(values))
detect_metric_anomalies(rows, column, anomaly_type_positive, anomaly_type_negative, metric_name) ==
    IF Len(rows) < 14 THEN <<>>
    ELSE DetectFrom([i \in 1..Len(rows) |-> rows[i][column]],
                    [i \in 1..Len(rows) |-> rows[i].date],
                    WINDOW + 1, anomaly_type_positive, anomaly_type_negative,
                    metric_name)

\* the three extend() calls of detect_daily_anomalies
DailyAnomaliesOf(rows) ==
    detect_metric_anomalies(rows, "revenue", "revenue_spike", "revenue_drop",
                            "revenue")
    \o detect_metric_anomalies(rows, "receipts", "traffic_spike", "traffic_drop",
                               "receipts")
    \o detect_metric_anomalies(rows, "avg_check", "avg_check_spike",
                               "avg_check_drop", "avg_check")

(* _get_severity on its own: z_score = n / ZDen for |n| <= ZMax * ZDen     *)

ZMax == 6

ZDen == 10

ZScores == { [num |-> n, den2 |-> ZDen * ZDen] : n \in (0 - ZMax * ZDen)..(ZMax * ZDen) }

InitSeverity ==
    /\ pc = "severity_start"
    /\ z_score \in ZScores
    /\ severity = Null
    /\ sales_data = Null /\ metric = Null /\ abc_result = Null
    /\ data = Null /\ anomalies = Null
    /\ BasketIdle
    /\ OthersIdle

get_severity_call ==
    /\ pc = "severity_start"
    /\ severity' = get_severity(z_score)
    /\ pc' = "severity_done"
    /\ UNCHANGED <<z_score, abc_vars, daily_vars, basket_vars, other_vars>>

NextSeverity == get_severity_call

SpecSeverity == InitSeverity /\ [][NextSeverity]_vars

(* detect_daily_anomalies.  The rows of get_daily_metrics are ordered by   *)
(* date; date is the day number.  One of the three metric columns carries  *)
(* the series under test and the other two stay at 0.  The series is two   *)
(* runs of values over WINDOW - 1 days, or two runs of values over WINDOW  *)
(* days followed by up to MaxTail further days.  Series values are money   *)
(* in tens (99 is 990) or counts.                                          *)

MaxTail == 2

SeriesValues == {99, 100, 101, 110, 500}

\* where the first run of a base series ends
RunSplits == {0, 1, 7, 13}

DailyColumns == {"revenue", "receipts", "avg_check"}

\* two runs of values over n days
BaseSeries(n) ==
    { [i \in 1..n |-> IF i <= n1 THEN a ELSE b] :
        n1 \in RunSplits, a \in SeriesValues, b \in SeriesValues }

TailSeries == UNION { [1..k -> SeriesValues] : k \in 0..MaxTail }

DailyRows(series, column) ==
    [i \in 1..Len(series) |->
        [ date      |-> i,
          revenue   |-> IF column = "revenue" THEN series[i] ELSE 0,
          receipts  |-> IF column = "receipts" THEN series[i] ELSE 0,
          avg_check |-> IF column = "avg_check" THEN series[i] ELSE 0 ]]

InitDaily ==
    /\ pc = "daily_start"
    /\ \E n \in {WINDOW - 1, WINDOW}, column \in DailyColumns :
        \E base \in BaseSeries(n) :
            \E tail \in IF n = WINDOW THEN TailSeries ELSE {<<>>} :
                data = DailyRows(base \o tail, column)
    /\ anomalies = Null
    /\ sales_data = Null /\ metric = Null /\ abc_result = Null
    /\ z_score = Null /\ severity = Null
    /\ BasketIdle
    /\ OthersIdle

\* if len(data) < 14: return []
detect_daily_anomalies_short ==
    /\ pc = "daily_start"
    /\ Len(data) < 14
    /\ anomalies' = <<>>
    /\ pc' = "daily_done"
    /\ UNCHANGED <<data, abc_vars, severity_vars, basket_vars, other_vars>>

detect_daily_anomalies ==
    /\ pc = "daily_start"
    /\ Len(data) >= 14
    /\ anomalies' = DailyAnomaliesOf(data)
    /\ pc' = "daily_done"
    /\ UNCHANGED <<data, abc_vars, severity_vars, basket_vars, other_vars>>

NextDaily == detect_daily_anomalies_short \/ detect_daily_anomalies

SpecDaily == InitDaily /\ [][NextDaily]_vars


-----------------------------------------------------------------------------
(* Claims about the anomaly detector                                       *)

\* C4: _get_severity maps a z-score to a severity that depends only on |z|:
\* critical if |z| >= 5, else high if |z| >= 4, else medium if |z| >= 3,
\* else low if |z| >= 2, and None if |z| < 2; z and -z give the same result.
C4_SeverityByAbsZ ==
    pc = "severity_done" =>
        LET n == Abs(z_score.num)
        IN  /\ severity =
                  IF n >= 5 * ZDen THEN "critical"
                  ELSE IF n >= 4 * ZDen THEN "high"
                  ELSE IF n >= 3 * ZDen THEN "medium"
                  ELSE IF n >= 2 * ZDen THEN "low"
                  ELSE Null
            /\ severity = get_severity([num |-> 0 - z_score.num,
                                        den2 |-> z_score.den2])

\* z = -4 exactly, judged high
C4_Witness ==
    /\ pc = "severity_done"
    /\ z_score.num = 0 - 4 * ZDen
    /\ severity = "high"

DailyDone == pc = "daily_done"

\* the values of column c on the WINDOW days day - WINDOW .. day - 1
PrevValues(c, day) == [k \in 1..WINDOW |-> data[day - WINDOW - 1 + k][c]]

PrevSum(c, day) == SumUpTo(PrevValues(c, day), WINDOW)

PrevSumSq(c, day) ==
    LET prev == PrevValues(c, day)
    IN  SumUpTo([k \in 1..WINDOW |-> prev[k] * prev[k]], WINDOW)

\* WINDOW^2 times the population variance of those values
PrevSpread(c, day) ==
    LET sum == PrevSum(c, day)
    IN  WINDOW * PrevSumSq(c, day) - sum * sum

\* WINDOW times the distance of the day's value from their mean
PrevOffset(c, day) == WINDOW * data[day][c] - PrevSum(c, day)

Flagged(c, day) ==
    \E k \in 1..Len(anomalies) :
        anomalies[k].date = day /\ anomalies[k].metric_name = c

FlaggedAs(c, day, sev) ==
    \E k \in 1..Len(anomalies) :
        /\ anomalies[k].date = day /\ anomalies[k].metric_name = c
        /\ anomalies[k].severity = sev

\* the value of day lies at least t standard deviations of its WINDOW
\* predecessors from their mean, and that deviation is not 0
Deviates(c, day, t) ==
    LET sum == PrevSum(c, day)
        spread == WINDOW * PrevSumSq(c, day) - sum * sum
        offset == WINDOW * data[day][c] - sum
    IN  spread > 0 /\ offset * offset >= t * t * spread

RevenueSeries == [i \in 1..Len(data) |-> data[i].revenue]

\* daily revenue in tens: 1000 on 13 days and 5000 on day 14
SpikeOnDay14 == [i \in 1..14 |-> IF i <= 13 THEN 100 ELSE 500]

\* daily revenue in tens: 990 on 7 days, 1010 on 7 days, 5000 on day 15
SpikeOnDay15 ==
    [i \in 1..15 |-> IF i <= 7 THEN 99 ELSE IF i <= 14 THEN 101 ELSE 500]

\* C7 as stated: given 14 days of daily revenue equal to 1000 on the first
\* 13 days and 5000 on day 14, day 14 is flagged as revenue_spike with a
\* deviation of about +400% and severity high or critical.
C7_SpikeOnDay14Flagged ==
    (DailyDone /\ RevenueSeries = SpikeOnDay14) =>
        \E k \in 1..Len(anomalies) :
            /\ anomalies[k].date = 14
            /\ anomalies[k].anomaly_type = "revenue_spike"
            /\ Abs(anomalies[k].deviation_percent - 4000) <= 10
            /\ anomalies[k].severity \in {"high", "critical"}

\* C7 as amended: given 14 days of daily revenue with mean 1000 and a
\* non-zero spread (990 on 7 days, 1010 on 7 days) and 5000 on day 15, day
\* 15 is the one anomaly, of type revenue_spike, with expected value 1000,
\* deviation +400.0% and severity critical; for the 14 days 1000 x 13, 5000
\* nothing is flagged, no day having 14 predecessors.
C7_SpikeAfterFullWindowFlagged ==
    DailyDone =>
        /\ RevenueSeries = SpikeOnDay15 =>
              /\ Len(anomalies) = 1
              /\ anomalies[1].date = 15
              /\ anomalies[1].anomaly_type = "revenue_spike"
              /\ anomalies[1].expected_value = 100 * 100
              /\ anomalies[1].deviation_percent = 4000
              /\ anomalies[1].severity = "critical"
        /\ RevenueSeries = SpikeOnDay14 => anomalies = <<>>

C7_Witness ==
    /\ DailyDone
    /\ RevenueSeries = SpikeOnDay15
    /\ Len(anomalies) = 1
    /\ anomalies[1].anomaly_type = "revenue_spike"


(***************************************************************************)
(* Basket analysis: BasketAnalyzer.calculate_product_pairs                 *)
(* (backend/app/services/analytics/basket.py).                             *)
(*                                                                         *)
(* The minimum support count is int(total_receipts * float(min_support)):  *)
(* the Decimal is converted to the nearest IEEE-754 double, the product is *)
(* rounded to a double again and int() truncates it.  A double is modelled *)
(* as [sign, bits, exp]: bits is the 53-bit significand, most significant  *)
(* bit first, and the value is sign * 1.b2...b53 * 2^exp.                  *)
(***************************************************************************)
MANT_DIG == 53

\* the significand is produced and multiplied LimbBits bits at a time
LimbBits == 13

LimbCount == (MANT_DIG - 1) \div LimbBits

LimbBase == 2 ^ LimbBits

\* a Decimal argument is num / den with den a power of ten
Decimal(num, den) == [num |-> num, den |-> den]

\* scale |num| / den into [1, 2): the result is n / d * 2^e
RECURSIVE Normalise(_, _, _)
Normalise(n, d, e) ==
    IF n >= 2 * d THEN Normalise(n, 2 * d, e + 1)
    ELSE IF n < d THEN Normalise(2 * n, d, e - 1)
    ELSE [n |-> n, d |-> d, e |-> e]

\* the next k limbs of the binary expansion of r / d (r < d), and the
\* remainder left after them
RECURSIVE Expand(_, _, _)
Expand(r, d, k) ==
    IF k = 0 THEN [limbs |-> <<>>, r |-> r]
    ELSE LET rest == Expand((r * LimbBase) % d, d, k - 1)
         IN  [limbs |-> <<(r * LimbBase) \div d>> \o rest.limbs, r |-> rest.r]

\* the bits of LimbCount limbs, most significant first
BitsOf(limbs) ==
    [i \in 1..(LimbCount * LimbBits) |->
        (limbs[(i - 1) \div LimbBits + 1]
            \div 2 ^ (LimbBits - 1 - ((i - 1) % LimbBits))) % 2]

\* binary digits of a natural number, most significant first
ToBits(n) ==
    LET len == Cardinality({k \in 0..30 : 2 ^ k <= n})
    IN  [i \in 1..len |-> (n \div 2 ^ (len - i)) % 2]

\* the number whose binary digits are bits[1..k]
FromBits(bits, k) == SumSeq([i \in 1..k |-> bits[i] * 2 ^ (k - i)])

\* add one unit in the last place; a carry out of the top bit renormalises
Increment(bits) ==
    LET zeros == {i \in 1..Len(bits) : bits[i] = 0}
    IN  IF zeros = {}
        THEN [bits |-> [i \in 1..Len(bits) |-> IF i = 1 THEN 1 ELSE 0], carry |-> 1]
        ELSE LET last == CHOOSE i \in zeros : \A j \in zeros : j <= i
             IN  [bits  |-> [i \in 1..Len(bits) |->
                               IF i < last THEN bits[i]
                               ELSE IF i = last THEN 1 ELSE 0],
                  carry |-> 0]

\* round to nearest, ties to even
RoundBits(bits, exp, round_up) ==
    IF round_up
    THEN LET inc == Increment(bits)
         IN  [bits |-> inc.bits, exp |-> exp + inc.carry]
    ELSE [bits |-> bits, exp |-> exp]

\* float(Decimal): the double nearest to num / den
float(dec) ==
    IF dec.num = 0 THEN [sign |-> 0, bits |-> <<>>, exp |-> 0]
    ELSE LET nz   == Normalise(Abs(dec.num), dec.den, 0)
             ex   == Expand(nz.n - nz.d, nz.d, LimbCount)
             bits == <<1>> \o BitsOf(ex.limbs)
             up   == \/ 2 * ex.r > nz.d
                     \/ 2 * ex.r = nz.d /\ bits[MANT_DIG] = 1
             rb   == RoundBits(bits, nz.e, up)
         IN  [sign |-> IF dec.num < 0 THEN -1 ELSE 1,
              bits |-> rb.bits, exp |-> rb.exp]

\* the limbs of a significand without its leading 1
LimbsOf(bits) ==
    [k \in 1..LimbCount |-> FromBits(SubSeq(bits, 2 + (k - 1) * LimbBits,
                                            1 + k * LimbBits), LimbBits)]

\* limbs[1..k] times n plus the carry: the limbs of the product and the
\* carry out of the first limb
RECURSIVE MulLimbs(_, _, _, _)
MulLimbs(limbs, k, n, carry) ==
    IF k = 0 THEN [limbs |-> <<>>, carry |-> carry]
    ELSE LET t    == limbs[k] * n + carry
             rest == MulLimbs(limbs, k - 1, n, t \div LimbBase)
         IN  [limbs |-> Append(rest.limbs, t % LimbBase), carry |-> rest.carry]

\* n * x for an int n >= 1 and a double x, rounded to a double
IntTimesFloat(n, x) ==
    IF x.sign = 0 THEN x
    ELSE LET mul   == MulLimbs(LimbsOf(x.bits), LimbCount, n, 0)
             prod  == ToBits(n + mul.carry) \o BitsOf(mul.limbs)
             extra == Len(prod) - MANT_DIG
             top   == SubSeq(prod, 1, MANT_DIG)
             up    == /\ extra > 0
                      /\ prod[MANT_DIG + 1] = 1
                      /\ \/ top[MANT_DIG] = 1
                         \/ \E j \in (MANT_DIG + 2)..Len(prod) : prod[j] = 1
             rb    == RoundBits(top, x.exp + extra, up)
         IN  [sign |-> x.sign, bits |-> rb.bits, exp |-> rb.exp]

\* int(x): truncation towards zero
int(x) ==
    IF x.sign = 0 \/ x.exp < 0 THEN 0
    ELSE x.sign * FromBits(x.bits, x.exp + 1)

\* min_support_count = int(total_receipts * float(min_support))
MinSupportCount(total_receipts, support) ==
    int(IntTimesFloat(total_receipts, float(support)))

(***************************************************************************)
(* receipt_products maps a receipt to the non-empty set of its products.   *)
(* The model keeps it as a sequence of runs [products, n]: n consecutive   *)
(* receipts (in the dict's iteration order) with the same product set.     *)
(* Product ids are ordered as sorted() orders them.                        *)
(***************************************************************************)
TotalReceipts(runs) == SumSeq([i \in 1..Len(runs) |-> runs[i].n])

\* product_counts[product_id]: the receipts that contain the product
ProductCounts(runs, product_id) ==
    SumSeq([i \in 1..Len(runs) |->
              IF product_id \in runs[i].products THEN runs[i].n ELSE 0])

\* sorted(products)
RECURSIVE Sorted(_)
Sorted(products) ==
    IF products = {} THEN <<>>
    ELSE LET least == CHOOSE p \in products : \A o \in products : p <= o
         IN  <<least>> \o Sorted(products \ {least})

\* itertools.combinations(s, 2), in the order it yields them
RECURSIVE Combinations2(_, _, _)
Combinations2(s, i, j) ==
    IF i >= Len(s) THEN <<>>
    ELSE IF j > Len(s) THEN Combinations2(s, i + 1, i + 2)
    ELSE <<(<<s[i], s[j]>>)>> \o Combinations2(s, i, j + 1)

\* pair_counts[pair] += n for each pair of one run of receipts; a new key
\* goes to the end of the dict
RECURSIVE AddPairs(_, _, _, _)
AddPairs(pair_counts, combos, k, n) ==
    IF k > Len(combos) THEN pair_counts
    ELSE LET known == {i \in 1..Len(pair_counts) : pair_counts[i].pair = combos[k]}
             next  == IF known = {}
                      THEN Append(pair_counts, [pair |-> combos[k], count |-> n])
                      ELSE LET i == CHOOSE x \in known : TRUE
                           IN  [pair_counts EXCEPT ![i].count = @ + n]
         IN  AddPairs(next, combos, k + 1, n)

\* pair_counts after the receipts of runs[1..k], as the list of its items()
RECURSIVE PairCounts(_, _)
PairCounts(runs, k) ==
    IF k = 0 THEN <<>>
    ELSE LET before == PairCounts(runs, k - 1)
         IN  IF Cardinality(runs[k].products) < 2 THEN before
             ELSE AddPairs(before, Combinations2(Sorted(runs[k].products), 1, 2),
                           1, runs[k].n)

\* the pairs the filter lets through: co_count >= max(min_occurrences,
\* min_support_count)
Surviving(pair_counts, occurrences, support_count) ==
    LET threshold == Max(occurrences, support_count)
        Kept(entry) == ~(entry.count < threshold)
    IN  SelectSeq(pair_counts, Kept)

\* Decimal(str(co_count / total_receipts)).quantize(Decimal("0.0001")), in
\* units of 0.0001
Support(co_count, total_receipts) == RoundHalfEven(co_count * 10000, total_receipts)

Confidence_Percent(co_count, count) ==
    IF count > 0 THEN RoundHalfEven(co_count * 100, count) ELSE 0

\* Decimal(str(co_count / count)).quantize(Decimal("0.001")) if count > 0
\* else Decimal("0"), in units of 0.001
Confidence(co_count, count) ==
    IF count > 0 THEN RoundHalfEven(co_count * 1000, count) ELSE 0

\* lift.quantize(Decimal("0.01")) in units of 0.01, where lift is
\* co_count / expected and expected = count_a/total * count_b/total * total,
\* or 1 when expected is 0.  The quotient is computed in doubles: off a tie
\* the rounding error (about 10^-15) cannot move it across a rounding
\* boundary; on an exact tie the double falls on either side of it, so both
\* neighbours are possible.
Lift_NoTotal(co_count, count_a, count_b, total_receipts) ==
    IF count_a * count_b > 0
    THEN {RoundHalfEven(100 * co_count, count_a * count_b)}
    ELSE {100}

Lift(co_count, count_a, count_b, total_receipts) ==
    IF count_a * count_b > 0
    THEN LET n == 100 * co_count * total_receipts
             d == count_a * count_b
         IN  IF 2 * (n % d) = d THEN {n \div d, n \div d + 1}
             ELSE {RoundHalfEven(n, d)}
    ELSE {100}

ProductPair(entry, runs, lift) ==
    LET count_a == ProductCounts(runs, entry.pair[1])
        count_b == ProductCounts(runs, entry.pair[2])
        total   == TotalReceipts(runs)
    IN  [product_a_id        |-> entry.pair[1],
         product_b_id        |-> entry.pair[2],
         co_occurrence_count |-> entry.count,
         product_a_count     |-> count_a,
         product_b_count     |-> count_b,
         total_receipts      |-> total,
         support             |-> Support(entry.count, total),
         confidence_a_to_b   |-> Confidence(entry.count, count_a),
         confidence_b_to_a   |-> Confidence(entry.count, count_b),
         lift                |-> lift]

\* the lifts the first k surviving pairs can get, one sequence per outcome
RECURSIVE LiftsOf(_, _, _)
LiftsOf(surviving, runs, k) ==
    IF k = 0 THEN {<<>>}
    ELSE LET e == surviving[k]
             of == Lift(e.count, ProductCounts(runs, e.pair[1]),
                        ProductCounts(runs, e.pair[2]), TotalReceipts(runs))
         IN  {Append(lifts, v) : lifts \in LiftsOf(surviving, runs, k - 1), v \in of}

\* pairs.sort(key=lambda x: x.lift, reverse=True)
SortByLift_Ascending(unsorted) ==
    LET order == SortDescStable([i \in 1..Len(unsorted) |-> -unsorted[i].lift])
    IN  [r \in 1..Len(unsorted) |-> unsorted[order[r]]]

SortByLift(unsorted) ==
    LET order == SortDescStable([i \in 1..Len(unsorted) |-> unsorted[i].lift])
    IN  [r \in 1..Len(unsorted) |-> unsorted[order[r]]]

\* s[:k]
Slice(s, k) ==
    IF k >= 0 THEN SubSeq(s, 1, IF k < Len(s) THEN k ELSE Len(s))
    ELSE SubSeq(s, 1, Len(s) + k)

(***************************************************************************)
(* Inputs of calculate_product_pairs: up to MaxRuns runs of receipts over  *)
(* three products, and the two receipt sets of the documented examples.    *)
(***************************************************************************)
MaxRuns == 2

ProductIds == {1, 2, 3}

RunLengths == {28, 72}

Run(products, n) == [products |-> products, n |-> n]

Runs == {Run(products, n) : products \in (SUBSET ProductIds) \ {{}}, n \in RunLengths}

\* 1000 receipts, product 1 in 100, product 2 in 80, both in 50
\* (test_product_pair_metrics)
PairMetricsReceipts ==
    <<Run({1, 2}, 50), Run({1}, 50), Run({2}, 30), Run({3}, 870)>>

\* 82 receipts, products 1 and 2 together in 80: the exact lift is 1.025
LiftTieReceipts == <<Run({1, 2}, 80), Run({3}, 2)>>

MinSupports == {Decimal(1, 100), Decimal(29, 100), Decimal(1, 2)}

MinOccurrences == {5, 30}

Limits == {1, 50}

InitBasket ==
    /\ pc = "calculate_product_pairs"
    /\ \/ /\ \E k \in 0..MaxRuns : receipt_products \in [1..k -> Runs]
          /\ min_support \in MinSupports
          /\ min_occurrences \in MinOccurrences
          /\ limit \in Limits
       \/ /\ receipt_products \in {PairMetricsReceipts, LiftTieReceipts}
          /\ min_support = Decimal(1, 100)
          /\ min_occurrences = 5
          /\ limit = 50
    /\ pairs = Null /\ product_pairs = Null
    /\ sales_data = Null /\ metric = Null /\ abc_result = Null
    /\ z_score = Null /\ severity = Null
    /\ data = Null /\ anomalies = Null
    /\ OthersIdle

\* if total_receipts == 0: return []
calculate_product_pairs_empty ==
    /\ pc = "calculate_product_pairs"
    /\ TotalReceipts(receipt_products) = 0
    /\ pc' = "pairs_done"
    /\ pairs' = <<>>
    /\ product_pairs' = <<>>
    /\ UNCHANGED <<receipt_products, min_support, min_occurrences, limit>>
    /\ UNCHANGED <<abc_vars, severity_vars, daily_vars, other_vars>>

calculate_product_pairs ==
    /\ pc = "calculate_product_pairs"
    /\ TotalReceipts(receipt_products) # 0
    /\ \E min_support_count \in
            {MinSupportCount(TotalReceipts(receipt_products), min_support)} :
       LET pair_counts == PairCounts(receipt_products, Len(receipt_products))
           surviving   == Surviving(pair_counts, min_occurrences, min_support_count)
       IN  \E lifts \in LiftsOf(surviving, receipt_products, Len(surviving)) :
              LET unsorted == [i \in 1..Len(surviving) |->
                                 ProductPair(surviving[i], receipt_products, lifts[i])]
              IN  /\ pairs' = SortByLift(unsorted)
                  /\ product_pairs' = Slice(SortByLift(unsorted), limit)
    /\ pc' = "pairs_done"
    /\ UNCHANGED <<receipt_products, min_support, min_occurrences, limit>>
    /\ UNCHANGED <<abc_vars, severity_vars, daily_vars, other_vars>>

NextBasket == calculate_product_pairs_empty \/ calculate_product_pairs

SpecBasket == InitBasket /\ [][NextBasket]_vars

-----------------------------------------------------------------------------
(* Properties of calculate_product_pairs                                   *)

BasketDone == pc = "pairs_done"

\* the receipts that contain every product of the set, counted on the input
ReceiptsWith(products) ==
    SumSeq([i \in 1..Len(receipt_products) |->
              IF products \subseteq receipt_products[i].products
              THEN receipt_products[i].n ELSE 0])

\* q units of 1/scale is n / d rounded to the nearest unit
NearestTo(q, scale, n, d) == 2 * Abs(q * d - scale * n) <= d

\* C8: every returned pair carries the counts of the input and, up to the
\* rounding of each field, support = co/total, confidence_a_to_b =
\* co/count(A), confidence_b_to_a = co/count(B) and lift =
\* co*total/(count(A)*count(B)); support and the confidences lie in [0, 1]
\* and lift >= 0; for total 1000, count(A) 100, count(B) 80 and co 50 the
\* values are 0.05, 0.5, 0.625 and 6.25.
C8_PairMetrics ==
    BasketDone =>
        /\ \A i \in 1..Len(product_pairs) :
              LET p     == product_pairs[i]
                  co    == ReceiptsWith({p.product_a_id, p.product_b_id})
                  a     == ReceiptsWith({p.product_a_id})
                  b     == ReceiptsWith({p.product_b_id})
                  total == ReceiptsWith({})
              IN  /\ p.co_occurrence_count = co
                  /\ p.product_a_count = a /\ p.product_b_count = b
                  /\ p.total_receipts = total
                  /\ NearestTo(p.support, 10000, co, total)
                  /\ NearestTo(p.confidence_a_to_b, 1000, co, a)
                  /\ NearestTo(p.confidence_b_to_a, 1000, co, b)
                  /\ NearestTo(p.lift, 100, co * total, a * b)
                  /\ p.support \in 0..10000
                  /\ p.confidence_a_to_b \in 0..1000
                  /\ p.confidence_b_to_a \in 0..1000
                  /\ p.lift >= 0
        /\ receipt_products = PairMetricsReceipts =>
              /\ Len(product_pairs) = 1
              /\ product_pairs[1].support = 500
              /\ product_pairs[1].confidence_a_to_b = 500
              /\ product_pairs[1].confidence_b_to_a = 625
              /\ product_pairs[1].lift = 625

C8_Witness ==
    /\ BasketDone
    /\ receipt_products = PairMetricsReceipts
    /\ Len(product_pairs) = 1
    /\ product_pairs[1].co_occurrence_count = 50
    /\ product_pairs[1].total_receipts = 1000

\* floor(min_support * total_baskets), computed exactly
FloorSupportCount == (min_support.num * ReceiptsWith({})) \div min_support.den

\* C9: before truncation to limit, a pair of products that occur together
\* is kept if and only if its co-occurrence count is at least
\* max(min_occurrences, floor(min_support * total_baskets)).
C9_KeptIffAtLeastFloor ==
    BasketDone =>
        \A a, b \in ProductIds :
            (a < b /\ ReceiptsWith({a, b}) > 0) =>
                ((\E i \in 1..Len(pairs) :
                      pairs[i].product_a_id = a /\ pairs[i].product_b_id = b)
                 <=> ReceiptsWith({a, b}) >= Max(min_occurrences, FloorSupportCount))

\* C10: the returned list is in non-increasing order of lift, has at most
\* limit entries, holds only surviving pairs, each once, and no surviving
\* pair left out has a lift greater than a returned one.
C10_TopByLift ==
    BasketDone =>
        LET Key(p) == <<p.product_a_id, p.product_b_id>>
            Returned == {Key(product_pairs[i]) : i \in 1..Len(product_pairs)}
        IN  /\ \A i \in 1..(Len(product_pairs) - 1) :
                  product_pairs[i].lift >= product_pairs[i + 1].lift
            /\ Len(product_pairs) <= limit
            /\ Cardinality(Returned) = Len(product_pairs)
            /\ \A i \in 1..Len(product_pairs) :
                  \E j \in 1..Len(pairs) : pairs[j] = product_pairs[i]
            /\ \A j \in 1..Len(pairs) :
                  Key(pairs[j]) \notin Returned =>
                      \A i \in 1..Len(product_pairs) :
                          pairs[j].lift <= product_pairs[i].lift

\* three pairs survive, the third counted has the greatest lift and limit
\* is 1: the sort moves it to the front and the other two are cut
C10_Witness ==
    /\ BasketDone
    /\ receipt_products = <<Run({1, 2, 3}, 28), Run({1}, 72)>>
    /\ limit = 1
    /\ Len(pairs) = 3
    /\ Len(product_pairs) = 1
    /\ product_pairs[1].product_a_id = 2 /\ product_pairs[1].product_b_id = 3
    /\ product_pairs[1].lift > pairs[3].lift

\* C11: a returned pair (A, B) whose products occur only together (every
\* receipt with A has B and every receipt with B has A) has both
\* confidences equal to 1, and a returned pair whose co-occurrence count
\* equals count(A) * count(B) / total has lift 1.
C11_TogetherAndIndependent ==
    BasketDone =>
        \A i \in 1..Len(product_pairs) :
            LET p     == product_pairs[i]
                co    == ReceiptsWith({p.product_a_id, p.product_b_id})
                a     == ReceiptsWith({p.product_a_id})
                b     == ReceiptsWith({p.product_b_id})
                total == ReceiptsWith({})
            IN  /\ (co = a /\ co = b) =>
                      (p.confidence_a_to_b = 1000 /\ p.confidence_b_to_a = 1000)
                /\ co * total = a * b => p.lift = 100

\* one returned pair occurs only together (and is not independent), another
\* is independent (and one of its products also occurs alone)
C11_Witness ==
    /\ BasketDone
    /\ \E i, j \in 1..Len(product_pairs) :
          LET p == product_pairs[i]
              q == product_pairs[j]
          IN  /\ p.co_occurrence_count = p.product_a_count
              /\ p.co_occurrence_count = p.product_b_count
              /\ p.confidence_a_to_b = 1000 /\ p.lift > 100
              /\ q.co_occurrence_count * q.total_receipts
                     = q.product_a_count * q.product_b_count
              /\ q.co_occurrence_count < q.product_a_count
              /\ q.lift = 100 /\ q.confidence_a_to_b < 1000

-----------------------------------------------------------------------------
(***************************************************************************)
(* BasketAnalysisService.generate_cross_sell_recommendations.              *)
(*                                                                         *)
(* Prices and potential revenue are in units of 0.01, confidences in units *)
(* of 0.001 and lifts in units of 0.01, as the Decimals of the code have   *)
(* them.  prices maps the ids of the products found to Product.price.      *)
(***************************************************************************)
TopN == 20

\* prices.get(product_id, Decimal("0"))
PriceOf(price_by_id, product_id) ==
    IF product_id \in DOMAIN price_by_id THEN price_by_id[product_id] ELSE 0

\* (price * count * (1 - confidence)).quantize(Decimal("0.01")); the
\* product is exact in Decimal arithmetic
Potential_OfBuyers(price, count, confidence) ==
    RoundHalfEven(price * count * confidence, 1000)

Potential(price, count, confidence) ==
    RoundHalfEven(price * count * (1000 - confidence), 1000)

CrossSellRecommendation(trigger, recommended, price, count, confidence, lift) ==
    [trigger_product_id     |-> trigger,
     recommended_product_id |-> recommended,
     confidence             |-> confidence,
     lift                   |-> lift,
     potential_revenue      |-> Potential(price, count, confidence)]

\* the candidates of one pair: direction A -> B, then direction B -> A
CandidatesOf(pair, price_by_id, confidence_min, lift_min) ==
    (IF pair.confidence_a_to_b >= confidence_min /\ pair.lift >= lift_min
     THEN <<CrossSellRecommendation(pair.product_a_id, pair.product_b_id,
                PriceOf(price_by_id, pair.product_b_id), pair.product_a_count,
                pair.confidence_a_to_b, pair.lift)>>
     ELSE <<>>)
    \o
    (IF pair.confidence_b_to_a >= confidence_min /\ pair.lift >= lift_min
     THEN <<CrossSellRecommendation(pair.product_b_id, pair.product_a_id,
                PriceOf(price_by_id, pair.product_a_id), pair.product_b_count,
                pair.confidence_b_to_a, pair.lift)>>
     ELSE <<>>)

\* recommendations after the loop over product_pairs[1..k]
RECURSIVE Candidates(_, _, _, _, _)
Candidates(pair_list, k, price_by_id, confidence_min, lift_min) ==
    IF k = 0 THEN <<>>
    ELSE Candidates(pair_list, k - 1, price_by_id, confidence_min, lift_min)
         \o CandidatesOf(pair_list[k], price_by_id, confidence_min, lift_min)

\* recommendations.sort(key=lambda x: x.potential_revenue, reverse=True)
SortByPotential(unsorted) ==
    LET order == SortDescStable([i \in 1..Len(unsorted) |->
                                    unsorted[i].potential_revenue])
    IN  [r \in 1..Len(unsorted) |-> unsorted[order[r]]]

RecKey(rec) == <<rec.trigger_product_id, rec.recommended_product_id>>

\* the entries of s at the positions in keep, in their order
AtPositions(s, keep) ==
    [r \in 1..Cardinality(keep) |->
        s[CHOOSE i \in keep : Cardinality({j \in keep : j < i}) = r - 1]]

\* the loop over seen: the first entry of every key is kept
Deduplicate_KeepLast(recs) ==
    AtPositions(recs, {i \in 1..Len(recs) :
                         \A j \in (i + 1)..Len(recs) : RecKey(recs[j]) # RecKey(recs[i])})

Deduplicate(recs) ==
    AtPositions(recs, {i \in 1..Len(recs) :
                         \A j \in 1..(i - 1) : RecKey(recs[j]) # RecKey(recs[i])})

(***************************************************************************)
(* Inputs of generate_cross_sell_recommendations: any list of up to        *)
(* MaxPairs ProductPair values over two products (the same pair may come   *)
(* more than once and in either orientation), and one list long enough to  *)
(* reach the cap of the result.                                            *)
(***************************************************************************)
MaxPairs == 2

\* a ProductPair as calculate_product_pairs builds it from its counts
PairOfCounts(a_id, b_id, co_count, count_a, count_b, total_receipts) ==
    [product_a_id        |-> a_id,
     product_b_id        |-> b_id,
     co_occurrence_count |-> co_count,
     product_a_count     |-> count_a,
     product_b_count     |-> count_b,
     total_receipts      |-> total_receipts,
     support             |-> Support(co_count, total_receipts),
     confidence_a_to_b   |-> Confidence(co_count, count_a),
     confidence_b_to_a   |-> Confidence(co_count, count_b),
     lift                |-> CHOOSE v \in Lift(co_count, count_a, count_b, total_receipts) : TRUE]

\* co-occurrence count, count of A, count of B, out of 100 receipts
PairCountValues == {<<28, 28, 56>>, <<28, 56, 56>>, <<2, 6, 10>>, <<2, 4, 40>>}

PairValues ==
    {PairOfCounts(ids[1], ids[2], c[1], c[2], c[3], 100) :
        ids \in {<<1, 2>>, <<2, 1>>}, c \in PairCountValues}

\* Product.price of a product that was found
PriceValues == {5, 250}

PriceMaps == UNION {[found -> PriceValues] : found \in SUBSET {1, 2}}

\* eleven pairs of product 1 with products 2..12 and the first pair once
\* more with other counts, all passing the default thresholds in both
\* directions: 24 candidates with 22 different keys
ManyPairs ==
    [k \in 1..12 |-> IF k <= 11 THEN PairOfCounts(1, k + 1, 28, 28 + k, 56, 100)
                     ELSE PairOfCounts(1, 2, 28, 40, 56, 100)]

MinConfidences == {100, 500}

MinLifts == {120, 179}

InitCrossSell ==
    /\ pc = "generate_cross_sell_recommendations"
    /\ \/ /\ \E k \in 0..MaxPairs : product_pairs \in [1..k -> PairValues]
          /\ prices \in PriceMaps
          /\ min_confidence \in MinConfidences
          /\ min_lift \in MinLifts
       \/ /\ product_pairs = ManyPairs
          /\ prices = [id \in 1..12 |-> 250]
          /\ min_confidence = 100
          /\ min_lift = 120
    /\ recommendations = Null /\ unique_recs = Null
    /\ receipt_products = Null /\ min_support = Null /\ min_occurrences = Null
    /\ limit = Null /\ pairs = Null
    /\ sales_data = Null /\ metric = Null /\ abc_result = Null
    /\ z_score = Null /\ severity = Null
    /\ data = Null /\ anomalies = Null
    /\ ForecastIdle
    /\ LaterIdle

generate_cross_sell_recommendations ==
    /\ pc = "generate_cross_sell_recommendations"
    /\ LET sorted == SortByPotential(Candidates(product_pairs, Len(product_pairs),
                                                prices, min_confidence, min_lift))
       IN  /\ recommendations' = sorted
           /\ unique_recs' = Slice(Deduplicate(sorted), TopN)
    /\ pc' = "cross_sell_done"
    /\ UNCHANGED <<prices, min_confidence, min_lift>>
    /\ UNCHANGED <<receipt_products, min_support, min_occurrences, limit, pairs>>
    /\ UNCHANGED <<product_pairs, abc_vars, severity_vars, daily_vars, forecast_vars>>
    /\ UNCHANGED later_vars

NextCrossSell == generate_cross_sell_recommendations

SpecCrossSell == InitCrossSell /\ [][NextCrossSell]_vars

-----------------------------------------------------------------------------
(* Properties of generate_cross_sell_recommendations                       *)

CrossSellDone == pc = "cross_sell_done"

Directions == {"a_to_b", "b_to_a"}

\* the trigger, the recommended product and the confidence of one
\* direction of product_pairs[i]
DirectionOf(i, d) ==
    LET pair == product_pairs[i]
    IN  IF d = "a_to_b"
        THEN [trigger |-> pair.product_a_id, recommended |-> pair.product_b_id,
              count |-> pair.product_a_count, confidence |-> pair.confidence_a_to_b,
              lift |-> pair.lift]
        ELSE [trigger |-> pair.product_b_id, recommended |-> pair.product_a_id,
              count |-> pair.product_b_count, confidence |-> pair.confidence_b_to_a,
              lift |-> pair.lift]

Qualifies(i, d) ==
    DirectionOf(i, d).confidence >= min_confidence /\ DirectionOf(i, d).lift >= min_lift

\* price(recommended) * count(trigger) * (1 - confidence) in units of
\* 0.00001, a missing price counted as 0
ExactPotential(i, d) ==
    LET dir   == DirectionOf(i, d)
        price == IF dir.recommended \in DOMAIN prices THEN prices[dir.recommended] ELSE 0
    IN  price * dir.count * (1000 - dir.confidence)

IsCandidateOf(rec, i, d) ==
    LET dir == DirectionOf(i, d)
    IN  /\ rec.trigger_product_id = dir.trigger
        /\ rec.recommended_product_id = dir.recommended
        /\ rec.confidence = dir.confidence
        /\ rec.lift = dir.lift

\* the candidates are exactly the qualifying directions, each with a
\* potential revenue that is Right for it
CandidatesAre(Right(_, _)) ==
    LET qualifying == {x \in (1..Len(product_pairs)) \X Directions : Qualifies(x[1], x[2])}
    IN  /\ Len(recommendations) = Cardinality(qualifying)
        /\ \A x \in qualifying : \E k \in 1..Len(recommendations) :
              /\ IsCandidateOf(recommendations[k], x[1], x[2])
              /\ Right(recommendations[k].potential_revenue, ExactPotential(x[1], x[2]))
        /\ \A k \in 1..Len(recommendations) : \E x \in qualifying :
              /\ IsCandidateOf(recommendations[k], x[1], x[2])
              /\ Right(recommendations[k].potential_revenue, ExactPotential(x[1], x[2]))

\* C12 as stated: both directions of every pair are considered, a direction
\* gives a candidate if and only if its confidence >= min_confidence and
\* the lift >= min_lift, and the candidate's potential revenue equals
\* price(recommended) * count(trigger) * (1 - confidence), a missing price
\* counted as 0.
C12_PotentialIsExactProduct ==
    CrossSellDone =>
        LET Equal(potential, exact) == potential * 1000 = exact
        IN  CandidatesAre(Equal)

\* C12, amended: the same, the potential revenue being that product rounded
\* to 2 decimal places.
C12_PotentialIsRoundedProduct ==
    CrossSellDone =>
        LET Rounded(potential, exact) == NearestTo(potential, 1, exact, 1000)
        IN  CandidatesAre(Rounded)

\* a pair with one qualifying direction only, a candidate whose recommended
\* product has no price, and a candidate whose product is not a whole
\* number of hundredths
C12_Witness ==
    /\ CrossSellDone
    /\ \E i \in 1..Len(product_pairs) :
          Qualifies(i, "a_to_b") /\ ~Qualifies(i, "b_to_a")
    /\ \E k \in 1..Len(recommendations) :
          /\ recommendations[k].recommended_product_id \notin DOMAIN prices
          /\ recommendations[k].potential_revenue = 0
          /\ recommendations[k].confidence < 1000
    /\ \E i \in 1..Len(product_pairs) :
          /\ Qualifies(i, "a_to_b")
          /\ ExactPotential(i, "a_to_b") % 1000 # 0

\* C13: the returned list has no two entries with the same (trigger,
\* recommended), keeps for each such key the candidate with the highest
\* potential revenue, is in non-increasing order of potential revenue and
\* has at most 20 entries.
C13_UniqueBestSortedCapped ==
    CrossSellDone =>
        /\ \A i, j \in 1..Len(unique_recs) :
              RecKey(unique_recs[i]) = RecKey(unique_recs[j]) => i = j
        /\ \A i \in 1..Len(unique_recs) :
              /\ \E k \in 1..Len(recommendations) : recommendations[k] = unique_recs[i]
              /\ \A k \in 1..Len(recommendations) :
                    RecKey(recommendations[k]) = RecKey(unique_recs[i]) =>
                        recommendations[k].potential_revenue
                            <= unique_recs[i].potential_revenue
        /\ \A i \in 1..(Len(unique_recs) - 1) :
              unique_recs[i].potential_revenue >= unique_recs[i + 1].potential_revenue
        /\ Len(unique_recs) <= 20

\* 24 candidates, two keys twice with different potential revenue, 22 keys,
\* 20 entries returned
C13_Witness ==
    /\ CrossSellDone
    /\ Len(recommendations) = 24
    /\ Len(unique_recs) = 20
    /\ \E i, j \in 1..Len(recommendations) :
          /\ RecKey(recommendations[i]) = RecKey(recommendations[j])
          /\ recommendations[i].potential_revenue > recommendations[j].potential_revenue
          /\ \E k \in 1..Len(unique_recs) : unique_recs[k] = recommendations[i]

-----------------------------------------------------------------------------
(***************************************************************************)
(* Forecasting: RevenueForecastService.forecast_revenue and quick_forecast *)
(* (services/forecasting/revenue.py), DemandForecastService                *)
(* ._forecast_product (services/forecasting/demand.py) and the route       *)
(* get_revenue_forecast (api/v1/forecasting.py).                           *)
(*                                                                         *)
(* history is [y, last]: y is the column data['y'] as runs [value, n] of n *)
(* consecutive days with the same value, last is the date of its last row. *)
(* Dates are day numbers.  A Decimal is a fraction [num, den], den > 0;    *)
(* the mean of the column is kept exact (the code takes it in doubles and  *)
(* converts the 17 significant digits of its repr).                        *)
(*                                                                         *)
(* Prophet is a third-party library.  prophet is what it does for the      *)
(* history at hand: fit is "ok" or the exception model.fit raises, rows    *)
(* are the rows [yhat_lower, yhat, yhat_upper] of the frame predict        *)
(* returns, in units of 0.001 and repeated cyclically over its dates.      *)
(* Its intervals are taken to contain yhat.                                *)
(***************************************************************************)
Frac(num, den) == [num |-> num, den |-> den]

\* fr * p / q for q > 0
Times(fr, p, q) == Frac(fr.num * p, fr.den * q)

FracLeq(a, b) == a.num * b.den <= b.num * a.den

FracEq(a, b) == a.num * b.den = b.num * a.den

\* max(a, b) of two Decimals (the first when they are equal)
MaxDecimal(a, b) == IF FracLeq(b, a) THEN a ELSE b

\* len(data)
HistoryLen(h) == SumSeq([i \in 1..Len(h.y) |-> h.y[i].n])

HistorySum(h) == SumSeq([i \in 1..Len(h.y) |-> h.y[i].value * h.y[i].n])

HistorySumSq(h) ==
    SumSeq([i \in 1..Len(h.y) |-> h.y[i].value * h.y[i].value * h.y[i].n])

\* Decimal(str(data['y'].mean())) if len(data) > 0 else Decimal("0")
MeanOrZero(h) ==
    IF HistoryLen(h) > 0 THEN Frac(HistorySum(h), HistoryLen(h)) ELSE Frac(0, 1)

\* the list comprehension of an average-based fallback: one point per day
\* from date.today() + 1 on
AveragePoints(avg, lower, upper, first_day, days) ==
    [i \in 1..days |->
        [date |-> first_day + i, forecast |-> avg,
         lower_bound |-> lower, upper_bound |-> upper]]

\* Decimal(str(max(0, x))).quantize(Decimal("0.01")) for x in units of 0.001
QuantizeNonNegative_Min(x) ==
    Frac(RoundHalfEven(IF x < 0 THEN x ELSE 0, 10), 100)

QuantizeNonNegative(x) == Frac(RoundHalfEven(Max(0, x), 10), 100)

\* the row of the frame for the i-th date
FrameRow(rows, i) == rows[1 + (i % Len(rows))]

\* the point built from the row of the frame for date ds
PointOfRow(row, ds) ==
    [date        |-> ds,
     forecast    |-> QuantizeNonNegative(row.yhat),
     lower_bound |-> QuantizeNonNegative(row.yhat_lower),
     upper_bound |-> QuantizeNonNegative(row.yhat_upper)]

\* the points of the rows after the last date of the history
FuturePoints(rows, h, days) ==
    [i \in 1..days |-> PointOfRow(FrameRow(rows, HistoryLen(h) + i), h.last + i)]

\* the points of the rows up to the last date of the history
PastPoints(rows, h) ==
    [i \in 1..HistoryLen(h) |->
        PointOfRow(FrameRow(rows, i), h.last - HistoryLen(h) + i)]

\* historical_points[-90:]
Last90(s) == IF Len(s) <= 90 THEN s ELSE SubSeq(s, Len(s) - 89, Len(s))

\* a / b <= c / d for a, c >= 0 and b, d > 0, by continued fractions (the
\* cross products do not fit the integers of the checker)
RECURSIVE LeqRatio(_, _, _, _)
LeqRatio(a, b, c, d) ==
    IF a \div b # c \div d THEN a \div b < c \div d
    ELSE IF a % b = 0 THEN TRUE
    ELSE IF c % d = 0 THEN FALSE
    ELSE LeqRatio(d, c % d, b, a % b)

\* the greatest k in lo..hi with Holds(k), for Holds true at lo and
\* downward closed
RECURSIVE Greatest(_, _, _)
Greatest(Holds(_), lo, hi) ==
    IF lo = hi THEN lo
    ELSE LET mid == (lo + hi + 1) \div 2
         IN  IF Holds(mid) THEN Greatest(Holds, mid, hi)
             ELSE Greatest(Holds, lo, mid - 1)

\* variance * 50 in units of 0.1, to the nearest unit: variance is
\* data['y'].std() / data['y'].mean() (sample standard deviation) if the
\* mean is positive, else 1
VarianceTimes50(h) ==
    LET n  == HistoryLen(h)
        s  == HistorySum(h)
        p  == n * (n * HistorySumSq(h) - s * s)
        q  == (n - 1) * s * s
        AtLeast(k) == k = 0 \/ LeqRatio((2 * k - 1) * (2 * k - 1), 1000000, p, q)
    IN  IF s > 0 THEN Greatest(AtLeast, 0, 1200) ELSE 500

\* the confidence without the floor max(30, ...)
ConfidenceOf_NoFloor(h) ==
    LET data_points == HistoryLen(h)
        raw         == 1000 - VarianceTimes50(h)
                            + 10 * (IF data_points < 50 THEN data_points ELSE 50)
    IN  IF raw > 1000 THEN 1000 ELSE raw

\* Decimal(str(min(100, max(30, 100 - variance * 50 + min(50, data_points)
\* )))).quantize(Decimal("0.1")), in units of 0.1
ConfidenceOf(h) ==
    LET data_points == HistoryLen(h)
        raw         == 1000 - VarianceTimes50(h)
                            + 10 * (IF data_points < 50 THEN data_points ELSE 50)
    IN  IF raw > 1000 THEN 1000 ELSE IF raw < 300 THEN 300 ELSE raw

\* a ForecastPoint as the ProductForecastPoint with the same numbers
ProductForecastPoint(point) ==
    [date        |-> point.date,
     quantity    |-> point.forecast,
     lower_bound |-> point.lower_bound,
     upper_bound |-> point.upper_bound]

ProductPoints(points) == [i \in 1..Len(points) |-> ProductForecastPoint(points[i])]

(***************************************************************************)
(* Inputs of the forecasters: a history of up to MaxHistoryRuns runs, a    *)
(* horizon, the day of the call and, when the history is long enough for   *)
(* a fit to be tried, what Prophet does.                                   *)
(***************************************************************************)
MaxHistoryRuns == 2

HistoryValues == {-3, 0, 2}

HistoryRunLengths == {1, 13, 17}

HistoryRuns == [value : HistoryValues, n : HistoryRunLengths]

LastDay == 100

Horizons == {1, 3}

\* rows [yhat_lower, yhat, yhat_upper] in units of 0.001
ProphetRows ==
    { [yhat_lower |-> -500, yhat |-> -200, yhat_upper |-> 300],
      [yhat_lower |-> 1004, yhat |-> 1005, yhat_upper |-> 1006],
      [yhat_lower |-> 1015, yhat |-> 1015, yhat_upper |-> 20000] }

ProphetFrames ==
    {<<row>> : row \in ProphetRows}
    \cup {<<[yhat_lower |-> 1004, yhat |-> 1005, yhat_upper |-> 1006],
            [yhat_lower |-> -500, yhat |-> -200, yhat_upper |-> 300]>>}

ProphetOutcomes ==
    {[fit |-> "ok", rows |-> rows] : rows \in ProphetFrames}
    \cup {[fit |-> e, rows |-> <<>>] : e \in {"ValueError", "RuntimeError"}}

\* the least history a fit is tried on
MinFitLen == 14

Forecasters == {"forecast_revenue", "quick_forecast", "_forecast_product"}

InitForecast ==
    /\ pc \in Forecasters
    /\ \E k \in 0..MaxHistoryRuns : \E y \in [1..k -> HistoryRuns] :
          history = [y |-> y, last |-> LastDay]
    /\ horizon_days \in Horizons
    /\ today \in {LastDay, LastDay + 1}
    /\ IF HistoryLen(history) >= MinFitLen
       THEN prophet \in ProphetOutcomes
       ELSE prophet = [fit |-> "not called", rows |-> <<>>]
    /\ forecast_points = <<>> /\ historical_points = <<>>
    /\ forecast_confidence = Null
    /\ raised = "none" /\ model_fitted = FALSE /\ http_status = Null
    /\ sales_data = Null /\ metric = Null /\ abc_result = Null
    /\ z_score = Null /\ severity = Null
    /\ data = Null /\ anomalies = Null
    /\ BasketIdle
    /\ CrossSellIdle
    /\ LaterIdle

ForecastInputsUnchanged ==
    /\ UNCHANGED <<history, horizon_days, prophet, today>>
    /\ UNCHANGED <<abc_vars, severity_vars, daily_vars, basket_vars, cross_sell_vars>>
    /\ UNCHANGED later_vars

\* the threshold of quick_forecast in the place of that of forecast_revenue
MinTrainLen_Quick == 14

\* the least history forecast_revenue accepts
MinTrainLen == 30

InsufficientData == "Insufficient data for forecasting. Need at least 30 days."

\* the status get_revenue_forecast answers with when the service raises e
StatusOf(e) == IF e = "RuntimeError" THEN 500 ELSE 400

\* forecast_revenue, len(data) < 30: ValueError before the model is made
forecast_revenue_insufficient ==
    /\ pc = "forecast_revenue"
    /\ HistoryLen(history) < MinTrainLen
    /\ raised' = InsufficientData
    /\ http_status' = 400
    /\ pc' = "forecast_done"
    /\ UNCHANGED <<forecast_points, historical_points, forecast_confidence, model_fitted>>
    /\ ForecastInputsUnchanged

\* forecast_revenue, model.fit raises inside _train_and_forecast
forecast_revenue_fit_fails ==
    /\ pc = "forecast_revenue"
    /\ HistoryLen(history) >= MinTrainLen
    /\ prophet.fit # "ok"
    /\ model_fitted' = TRUE
    /\ raised' = prophet.fit
    /\ http_status' = StatusOf(prophet.fit)
    /\ pc' = "forecast_done"
    /\ UNCHANGED <<forecast_points, historical_points, forecast_confidence>>
    /\ ForecastInputsUnchanged

\* forecast_revenue, the model is fitted: the future rows are the forecast,
\* the last 90 of the others the historical points
forecast_revenue_ok ==
    /\ pc = "forecast_revenue"
    /\ HistoryLen(history) >= MinTrainLen
    /\ prophet.fit = "ok"
    /\ model_fitted' = TRUE
    /\ forecast_points' = FuturePoints(prophet.rows, history, horizon_days)
    /\ historical_points' = Last90(PastPoints(prophet.rows, history))
    /\ http_status' = 200
    /\ pc' = "forecast_done"
    /\ UNCHANGED <<forecast_confidence, raised>>
    /\ ForecastInputsUnchanged

\* quick_forecast, len(data) < 14: the average with 80% and 120% of it
quick_forecast_average ==
    /\ pc = "quick_forecast"
    /\ HistoryLen(history) < MinFitLen
    /\ \E avg \in {MeanOrZero(history)} :
          forecast_points' = AveragePoints(avg, Times(avg, 8, 10),
                                           Times(avg, 12, 10), today, horizon_days)
    /\ pc' = "forecast_done"
    /\ UNCHANGED <<historical_points, forecast_confidence, raised, model_fitted, http_status>>
    /\ ForecastInputsUnchanged

\* quick_forecast, model.fit raises: nothing catches it
quick_forecast_fit_fails ==
    /\ pc = "quick_forecast"
    /\ HistoryLen(history) >= MinFitLen
    /\ prophet.fit # "ok"
    /\ model_fitted' = TRUE
    /\ raised' = prophet.fit
    /\ pc' = "forecast_done"
    /\ UNCHANGED <<forecast_points, historical_points, forecast_confidence, http_status>>
    /\ ForecastInputsUnchanged

quick_forecast_ok ==
    /\ pc = "quick_forecast"
    /\ HistoryLen(history) >= MinFitLen
    /\ prophet.fit = "ok"
    /\ model_fitted' = TRUE
    /\ forecast_points' = FuturePoints(prophet.rows, history, horizon_days)
    /\ pc' = "forecast_done"
    /\ UNCHANGED <<historical_points, forecast_confidence, raised, http_status>>
    /\ ForecastInputsUnchanged

\* the points of an average-based fallback of _forecast_product: the lower
\* bound is max(Decimal("0"), avg * low), the upper bound avg * high, both
\* factors in tenths
ProductAveragePoints_Unclamped(avg, low, high, first_day, days) ==
    ProductPoints(AveragePoints(avg, Times(avg, low, 10), Times(avg, high, 10), first_day, days))

ProductAveragePoints(avg, low, high, first_day, days) ==
    ProductPoints(AveragePoints(avg, MaxDecimal(Frac(0, 1), Times(avg, low, 10)), Times(avg, high, 10), first_day, days))

\* _forecast_product, len(data) < 14
forecast_product_average ==
    /\ pc = "_forecast_product"
    /\ HistoryLen(history) < MinFitLen
    /\ forecast_points' =
          ProductAveragePoints(MeanOrZero(history), 5, 15, today, horizon_days)
    /\ forecast_confidence' = 500
    /\ pc' = "forecast_done"
    /\ UNCHANGED <<historical_points, raised, model_fitted, http_status>>
    /\ ForecastInputsUnchanged

\* _forecast_product, the try block runs to its end
forecast_product_ok ==
    /\ pc = "_forecast_product"
    /\ HistoryLen(history) >= MinFitLen
    /\ prophet.fit = "ok"
    /\ model_fitted' = TRUE
    /\ forecast_points' =
          ProductPoints(FuturePoints(prophet.rows, history, horizon_days))
    /\ \E confidence \in {ConfidenceOf(history)} : forecast_confidence' = confidence
    /\ pc' = "forecast_done"
    /\ UNCHANGED <<historical_points, raised, http_status>>
    /\ ForecastInputsUnchanged

\* _forecast_product, except Exception: the average of the history
forecast_product_fallback ==
    /\ pc = "_forecast_product"
    /\ HistoryLen(history) >= MinFitLen
    /\ prophet.fit # "ok"
    /\ model_fitted' = TRUE
    /\ forecast_points' =
          ProductAveragePoints(Frac(HistorySum(history), HistoryLen(history)),
                               7, 13, today, horizon_days)
    /\ forecast_confidence' = 400
    /\ pc' = "forecast_done"
    /\ UNCHANGED <<historical_points, raised, http_status>>
    /\ ForecastInputsUnchanged

NextForecast ==
    \/ forecast_revenue_insufficient
    \/ forecast_revenue_fit_fails
    \/ forecast_revenue_ok
    \/ quick_forecast_average
    \/ quick_forecast_fit_fails
    \/ quick_forecast_ok
    \/ forecast_product_average
    \/ forecast_product_ok
    \/ forecast_product_fallback

SpecForecast == InitForecast /\ [][NextForecast]_vars

ForecastDone == pc = "forecast_done"

\* the point estimate of a point: forecast of a ForecastPoint, quantity of a
\* ProductForecastPoint
PointEstimate(point) ==
    IF "quantity" \in DOMAIN point THEN point.quantity ELSE point.forecast

Bracketed(point) ==
    /\ FracLeq(point.lower_bound, PointEstimate(point))
    /\ FracLeq(PointEstimate(point), point.upper_bound)

\* C14: every point a forecaster emits has
\* lower_bound <= point estimate <= upper_bound.
C14_BoundsBracketPoint ==
    ForecastDone =>
        /\ \A i \in 1..Len(forecast_points) : Bracketed(forecast_points[i])
        /\ \A i \in 1..Len(historical_points) : Bracketed(historical_points[i])

\* C15: forecast_revenue raises the insufficient-data error, with no
\* forecast produced and no model fitted, exactly when the history has fewer
\* than 30 points, and the route answers that error with status 400.
C15_InsufficientData ==
    [][pc = "forecast_revenue" =>
          /\ (raised' = InsufficientData) <=> (HistoryLen(history) < 30)
          /\ raised' = InsufficientData =>
                /\ http_status' = 400
                /\ forecast_points' = <<>> /\ historical_points' = <<>>
                /\ ~model_fitted']_vars

C15_Witness ==
    /\ ForecastDone
    /\ raised = InsufficientData
    /\ http_status = 400
    /\ HistoryLen(history) = 26

\* the historical mean, 0 for an empty history
HistoricalMean ==
    IF HistoryLen(history) = 0 THEN Frac(0, 1)
    ELSE Frac(HistorySum(history), HistoryLen(history))

\* points is horizon_days points at the historical mean whose bounds are
\* Lower(mean) and high tenths of the mean
FlatAtMean(points, Lower(_), high) ==
    /\ Len(points) = horizon_days
    /\ \A i \in 1..Len(points) :
          /\ FracEq(points[i].quantity, HistoricalMean)
          /\ FracEq(points[i].lower_bound, Lower(HistoricalMean))
          /\ FracEq(points[i].upper_bound, Times(HistoricalMean, high, 10))

HalfOf(mean) == Times(mean, 5, 10)

SevenTenthsOf(mean) == Times(mean, 7, 10)

HalfOrZero(mean) == IF mean.num > 0 THEN HalfOf(mean) ELSE Frac(0, 1)

SevenTenthsOrZero(mean) == IF mean.num > 0 THEN SevenTenthsOf(mean) ELSE Frac(0, 1)

\* what a call of _forecast_product does, given the lower bounds of its two
\* fallbacks: it does not raise; below 14 points no model is fitted and the
\* result is flat at the mean with upper bound 150% and confidence 50; when
\* the fit raises the result is flat at the mean with upper bound 130% and
\* confidence 40
ForecastProductFallsBack(LowerShort(_), LowerFailed(_)) ==
    pc = "_forecast_product" =>
        /\ raised' = "none"
        /\ HistoryLen(history) < 14 =>
              /\ ~model_fitted'
              /\ FlatAtMean(forecast_points', LowerShort, 15)
              /\ forecast_confidence' = 500
        /\ (HistoryLen(history) >= 14 /\ prophet.fit # "ok") =>
              /\ FlatAtMean(forecast_points', LowerFailed, 13)
              /\ forecast_confidence' = 400

-----------------------------------------------------------------------------
(***************************************************************************)
(* RevenueForecastService._calculate_accuracy (services/forecasting/       *)
(* revenue.py).                                                            *)
(*                                                                         *)
(* An element of a series is a number or NaN.  The numbers of the model    *)
(* are small integers, on which the sums, the mean test ss_tot != 0 and    *)
(* the differences are exact in doubles, and for which no metric falls on  *)
(* a rounding tie that is not exact in doubles too; the metrics are        *)
(* therefore the exact values rounded half to even.  mape, rmse and mae    *)
(* are in units of 0.01 and r_squared in units of 0.001.                   *)
(***************************************************************************)
MaxSeriesLen == 3

NaN == [na |-> TRUE, v |-> 0]

Value(v) == [na |-> FALSE, v |-> v]

AccuracyValues == {NaN} \cup {Value(v) : v \in {0, 1, 3}}

\* a metric of the ForecastAccuracy: a Decimal in units, or Decimal('NaN')
Number(units) == [nan |-> FALSE, units |-> units]

DecimalNaN == [nan |-> TRUE, units |-> 0]

\* mask = ~(actual.isna() | predicted.isna()): the positions kept, in order
RECURSIVE Mask(_, _, _)
Mask(a, p, k) ==
    IF k = 0 THEN <<>>
    ELSE IF a[k].na \/ p[k].na THEN Mask(a, p, k - 1)
    ELSE Append(Mask(a, p, k - 1), k)

RECURSIVE ProductUpTo(_, _)
ProductUpTo(f, n) == IF n = 0 THEN 1 ELSE f[n] * ProductUpTo(f, n - 1)

\* np.nanmean(np.abs((actual - predicted) / actual.replace(0, np.nan)) *
\* 100): the mean over the positions with a non-zero actual, NaN if there
\* are none
Mape(a, p) ==
    LET n     == Len(a)
        count == Cardinality({i \in 1..n : a[i] # 0})
        scale == ProductUpTo([i \in 1..n |-> IF a[i] = 0 THEN 1 ELSE Abs(a[i])], n)
        terms == [i \in 1..n |->
                    IF a[i] = 0 THEN 0 ELSE Abs(a[i] - p[i]) * (scale \div Abs(a[i]))]
    IN  IF count = 0 THEN DecimalNaN
        ELSE Number(RoundHalfEven(10000 * SumSeq(terms), count * scale))

SumSquaredErrors(a, p) ==
    SumSeq([i \in 1..Len(a) |-> (a[i] - p[i]) * (a[i] - p[i])])

\* np.sqrt(np.mean((actual - predicted) ** 2)), to the nearest 0.01
Rmse(a, p) ==
    LET AtLeast(k) ==
            k = 0 \/ (2 * k - 1) * (2 * k - 1) * Len(a) <= 40000 * SumSquaredErrors(a, p)
    IN  Number(Greatest(AtLeast, 0, 400))

\* np.mean(np.abs(actual - predicted))
Mae(a, p) ==
    Number(RoundHalfEven(100 * SumSeq([i \in 1..Len(a) |-> Abs(a[i] - p[i])]), Len(a)))

\* len(actual) * ss_tot, ss_tot = np.sum((actual - actual.mean()) ** 2)
TotalSquares(a) ==
    Len(a) * SumSeq([i \in 1..Len(a) |-> a[i] * a[i]]) - SumSeq(a) * SumSeq(a)

\* max(0, 1 - (ss_res / ss_tot) if ss_tot != 0 else 0)
RSquared(a, p) ==
    LET tot == TotalSquares(a)
        res == Len(a) * SumSquaredErrors(a, p)
    IN  IF tot # 0 /\ tot - res > 0
        THEN Number(RoundHalfEven(1000 * (tot - res), tot))
        ELSE Number(0)

ForecastAccuracy(a, p) ==
    [mape |-> Mape(a, p), rmse |-> Rmse(a, p), mae |-> Mae(a, p),
     r_squared |-> RSquared(a, p)]

InitAccuracy ==
    /\ pc = "_calculate_accuracy"
    /\ \E n \in 0..MaxSeriesLen :
          /\ actual \in [1..n -> AccuracyValues]
          /\ predicted \in [1..n -> AccuracyValues]
    /\ accuracy = Null
    /\ sales_data = Null /\ metric = Null /\ abc_result = Null
    /\ z_score = Null /\ severity = Null
    /\ data = Null /\ anomalies = Null
    /\ BasketIdle /\ CrossSellIdle /\ ForecastIdle /\ RerunIdle /\ GoListIdle
    /\ FinalIdle

AccuracyRestUnchanged ==
    /\ UNCHANGED <<actual, predicted, abc_vars, severity_vars, daily_vars, basket_vars>>
    /\ UNCHANGED <<cross_sell_vars, forecast_vars, rerun_vars, go_list_vars>>
    /\ UNCHANGED final_vars

\* if len(actual) == 0 after the mask: every metric is Decimal("0")
calculate_accuracy_empty ==
    /\ pc = "_calculate_accuracy"
    /\ Mask(actual, predicted, Len(actual)) = <<>>
    /\ accuracy' = [mape |-> Number(0), rmse |-> Number(0), mae |-> Number(0),
                    r_squared |-> Number(0)]
    /\ pc' = "accuracy_done"
    /\ AccuracyRestUnchanged

calculate_accuracy ==
    /\ pc = "_calculate_accuracy"
    /\ \E mask \in {Mask(actual, predicted, Len(actual))} :
          /\ mask # <<>>
          /\ accuracy' = ForecastAccuracy([i \in 1..Len(mask) |-> actual[mask[i]].v],
                                          [i \in 1..Len(mask) |-> predicted[mask[i]].v])
    /\ pc' = "accuracy_done"
    /\ AccuracyRestUnchanged

NextAccuracy == calculate_accuracy_empty \/ calculate_accuracy

SpecAccuracy == InitAccuracy /\ [][NextAccuracy]_vars

AccuracyDone == pc = "accuracy_done"

\* C17: for a non-empty actual series and a predicted series identical to
\* it, _calculate_accuracy returns MAPE = 0, RMSE = 0, MAE = 0 and
\* R-squared = 1.
C17_PerfectPrediction ==
    (AccuracyDone /\ Len(actual) > 0 /\ predicted = actual) =>
        accuracy = [mape |-> Number(0), rmse |-> Number(0), mae |-> Number(0),
                    r_squared |-> Number(1000)]

-----------------------------------------------------------------------------
(***************************************************************************)
(* An analyzer called twice on the same inputs.                            *)
(*                                                                         *)
(* _forecast_product is called twice with the same history and horizon;    *)
(* date.today() is read by each call and the day can change between them.  *)
(* calculate_product_pairs is called twice over the same receipts; the     *)
(* query of get_receipt_items_data has no ORDER BY, so each call gets the  *)
(* rows, and with them the receipts of its dict, in an order of the        *)
(* database's choosing.                                                    *)
(***************************************************************************)
ShortHistories ==
    {y \in UNION {[1..k -> HistoryRuns] : k \in 0..MaxHistoryRuns} :
        HistoryLen([y |-> y, last |-> LastDay]) < MinFitLen}

\* the orders in which n items can be iterated
Orders(n) == {order \in [1..n -> 1..n] : \A i, j \in 1..n : order[i] = order[j] => i = j}

InOrder(items, order) == [i \in 1..Len(items) |-> items[order[i]]]

\* what _forecast_product returns for a history shorter than 14 days
ShortHistoryForecast(h, days, now) ==
    [points     |-> ProductAveragePoints(MeanOrZero(h), 5, 15, now, days),
     confidence |-> 500]

InitRerun ==
    /\ \/ /\ pc = "_forecast_product first call"
          /\ \E y \in ShortHistories : history = [y |-> y, last |-> LastDay]
          /\ horizon_days \in Horizons
          /\ today = LastDay
          /\ BasketIdle
       \/ /\ pc = "calculate_product_pairs first call"
          /\ \E k \in 0..MaxRuns : receipt_products \in [1..k -> Runs]
          /\ min_support = Decimal(1, 100)
          /\ min_occurrences = 5
          /\ limit \in Limits
          /\ pairs = Null /\ product_pairs = Null
          /\ history = Null /\ horizon_days = Null /\ today = Null
    /\ first_output = Null /\ second_output = Null
    /\ prophet = Null /\ forecast_points = Null /\ historical_points = Null
    /\ forecast_confidence = Null
    /\ raised = Null /\ model_fitted = Null /\ http_status = Null
    /\ sales_data = Null /\ metric = Null /\ abc_result = Null
    /\ z_score = Null /\ severity = Null
    /\ data = Null /\ anomalies = Null
    /\ CrossSellIdle /\ AccuracyIdle /\ GoListIdle /\ FinalIdle

RerunRestUnchanged ==
    /\ UNCHANGED <<history, horizon_days, prophet, forecast_points, historical_points>>
    /\ UNCHANGED <<forecast_confidence, raised, model_fitted, http_status>>
    /\ UNCHANGED <<abc_vars, severity_vars, daily_vars, basket_vars>>
    /\ UNCHANGED <<cross_sell_vars, accuracy_vars, go_list_vars, final_vars>>

\* the first call of _forecast_product, on the day today
forecast_product_first_call ==
    /\ pc = "_forecast_product first call"
    /\ first_output' = ShortHistoryForecast(history, horizon_days, today)
    /\ pc' = "_forecast_product second call"
    /\ UNCHANGED <<today, second_output>>
    /\ RerunRestUnchanged

\* the second call, on the same day or the next
forecast_product_second_call ==
    /\ pc = "_forecast_product second call"
    /\ \E now \in {today, today + 1} :
          /\ today' = now
          /\ second_output' = ShortHistoryForecast(history, horizon_days, now)
    /\ pc' = "_forecast_product called twice"
    /\ UNCHANGED first_output
    /\ RerunRestUnchanged

\* the sorted lists calculate_product_pairs can build when its dict iterates
\* the receipts as runs
SortedPairsOf(runs, support, occurrences) ==
    IF TotalReceipts(runs) = 0 THEN {<<>>}
    ELSE LET pair_counts == PairCounts(runs, Len(runs))
             surviving   == Surviving(pair_counts, occurrences,
                                      MinSupportCount(TotalReceipts(runs), support))
         IN  {SortByLift([i \in 1..Len(surviving) |->
                             ProductPair(surviving[i], runs, lifts[i])]) :
                lifts \in LiftsOf(surviving, runs, Len(surviving))}

\* the lists it can return
ProductPairsOf(runs, support, occurrences, lim) ==
    {Slice(sorted, lim) : sorted \in SortedPairsOf(runs, support, occurrences)}

\* a call of calculate_product_pairs: the receipts come in some order
PairsCall(output) ==
    \E order \in Orders(Len(receipt_products)) :
       \E returned \in ProductPairsOf(InOrder(receipt_products, order), min_support,
                                      min_occurrences, limit) :
          output = returned

product_pairs_first_call ==
    /\ pc = "calculate_product_pairs first call"
    /\ PairsCall(first_output')
    /\ pc' = "calculate_product_pairs second call"
    /\ UNCHANGED <<today, second_output>>
    /\ RerunRestUnchanged

product_pairs_second_call ==
    /\ pc = "calculate_product_pairs second call"
    /\ PairsCall(second_output')
    /\ pc' = "calculate_product_pairs called twice"
    /\ UNCHANGED <<today, first_output>>
    /\ RerunRestUnchanged

NextRerun ==
    \/ forecast_product_first_call
    \/ forecast_product_second_call
    \/ product_pairs_first_call
    \/ product_pairs_second_call

SpecRerun == InitRerun /\ [][NextRerun]_vars

RerunDone ==
    pc \in {"_forecast_product called twice", "calculate_product_pairs called twice"}

\* C18: an analyzer run twice on identical inputs returns identical output.
C18_RerunIsIdentical == RerunDone => first_output = second_output

\* the same, for the calls of calculate_product_pairs alone
C18_PairsRerunIsIdentical ==
    pc = "calculate_product_pairs called twice" => first_output = second_output

\* the receipts of the model give every pair one lift, so that two calls
\* over the same order of receipts return the same list
LiftsAreSingle ==
    (pc = "calculate_product_pairs first call") =>
        Cardinality(ProductPairsOf(receipt_products, min_support, min_occurrences,
                                   limit)) = 1

-----------------------------------------------------------------------------
(***************************************************************************)
(* Parameters outside their domain: abc_analysis and                       *)
(* calculate_product_pairs called as they are, and through the routes      *)
(* get_abc_analysis (api/v1/reports.py) and get_product_pairs              *)
(* (api/v1/analytics.py), which validate the query before calling them.    *)
(***************************************************************************)
MetricNames == Metrics \cup {"margin"}

RequestedSupports == {Decimal(-1, 100), Decimal(1, 100)}

\* Query(0.01, ge=0.001, le=0.5)
SupportInRange(support) ==
    /\ support.den <= 1000 * support.num
    /\ 2 * support.num <= support.den

InitParams ==
    /\ \/ /\ pc \in {"get_abc_analysis", "abc_start"}
          /\ \E n \in 0..MaxProducts : \E rows \in [1..n -> SalesRows] :
                /\ RevenueDescending(rows)
                /\ sales_data = WithProductId(rows)
          /\ metric \in MetricNames
          /\ BasketIdle
       \/ /\ pc \in {"get_product_pairs", "calculate_product_pairs"}
          /\ \E k \in 0..MaxRuns : receipt_products \in [1..k -> Runs]
          /\ min_support \in RequestedSupports
          /\ min_occurrences = 5
          /\ limit = 50
          /\ pairs = Null /\ product_pairs = Null
          /\ sales_data = Null /\ metric = Null
    /\ abc_result = Null
    /\ z_score = Null /\ severity = Null
    /\ data = Null /\ anomalies = Null
    /\ OthersIdle

RouteRestUnchanged ==
    /\ UNCHANGED <<history, horizon_days, prophet, today, forecast_points>>
    /\ UNCHANGED <<historical_points, forecast_confidence, raised, model_fitted>>
    /\ UNCHANGED <<sales_data, metric, severity_vars, daily_vars>>
    /\ UNCHANGED <<receipt_products, min_support, min_occurrences, limit>>
    /\ UNCHANGED <<cross_sell_vars, later_vars>>

\* what abc_analysis returns
AbcAnalysisOf(sales, m) ==
    IF sales = <<>>
    THEN [ products |-> <<>>, summary |-> <<>>,
           total_revenue |-> 0, total_profit |-> 0, total_metric |-> 0 ]
    ELSE AbcResultOf(sales, m)

\* if metric not in ["revenue", "profit", "quantity"]: HTTPException(400)
get_abc_analysis_rejects ==
    /\ pc = "get_abc_analysis"
    /\ metric \notin {"revenue", "profit", "quantity"}
    /\ http_status' = 400
    /\ pc' = "rejected"
    /\ UNCHANGED <<abc_result, pairs, product_pairs>>
    /\ RouteRestUnchanged

\* the route calls service.abc_analysis with the metric of the query and
\* answers with its result
get_abc_analysis_calls ==
    /\ pc = "get_abc_analysis"
    /\ metric \in {"revenue", "profit", "quantity"}
    /\ abc_result' = AbcAnalysisOf(sales_data, metric)
    /\ http_status' = 200
    /\ pc' = "abc_done"
    /\ UNCHANGED <<pairs, product_pairs>>
    /\ RouteRestUnchanged

\* the validation of the Query parameter fails: 422 before the handler runs
get_product_pairs_rejects ==
    /\ pc = "get_product_pairs"
    /\ ~SupportInRange(min_support)
    /\ http_status' = 422
    /\ pc' = "rejected"
    /\ UNCHANGED <<abc_result, pairs, product_pairs>>
    /\ RouteRestUnchanged

\* the route calls service.calculate_product_pairs and answers with its
\* result
get_product_pairs_calls ==
    /\ pc = "get_product_pairs"
    /\ SupportInRange(min_support)
    /\ \E sorted \in SortedPairsOf(receipt_products, min_support, min_occurrences) :
          /\ pairs' = sorted
          /\ product_pairs' = Slice(sorted, limit)
    /\ http_status' = 200
    /\ pc' = "pairs_done"
    /\ UNCHANGED abc_result
    /\ RouteRestUnchanged

NextParams ==
    \/ get_abc_analysis_rejects
    \/ get_abc_analysis_calls
    \/ abc_analysis_empty
    \/ abc_analysis
    \/ get_product_pairs_rejects
    \/ get_product_pairs_calls
    \/ calculate_product_pairs_empty
    \/ calculate_product_pairs

SpecParams == InitParams /\ [][NextParams]_vars

\* C19: an unknown metric name passed to abc_analysis, or a min_support out
\* of range passed to calculate_product_pairs, is rejected before any
\* computation: neither function returns a result for it.
C19_InvalidParametersRejected ==
    /\ pc = "abc_done" => metric \in Metrics
    /\ pc = "pairs_done" => SupportInRange(min_support)

\* abc_analysis with an unknown metric returns what it returns for revenue
UnknownMetricIsRevenue ==
    (pc = "abc_done" /\ metric \notin Metrics /\ sales_data # <<>>) =>
        abc_result = AbcResultOf(sales_data, "revenue")

\* a request that fails the validation of its route reaches no analyzer
RoutesReject ==
    [][((pc = "get_abc_analysis" /\ metric \notin Metrics)
        \/ (pc = "get_product_pairs" /\ ~SupportInRange(min_support)))
       => (pc' = "rejected" /\ abc_result' = abc_result
           /\ product_pairs' = product_pairs)]_vars

-----------------------------------------------------------------------------
(***************************************************************************)
(* MenuAnalysisService.go_list (services/reports/menu.py).                 *)
(*                                                                         *)
(* The optional argument margin_threshold is <<>> for None and <<t>> for   *)
(* the Decimal t, in units of 0.01 percent like margin_percent.  The       *)
(* threshold in force is a fraction: the median of an even number of       *)
(* margins lies halfway between two of them.  The median is taken in       *)
(* doubles; its error is far smaller than the distance of the median to    *)
(* any margin different from it, so the comparisons are those of the       *)
(* exact median.  The summary and the top-level recommendations of the     *)
(* GoListResult are left out.                                              *)
(***************************************************************************)
MARGIN_THRESHOLD == 3000

MarginThresholds == {<<>>, <<3000>>, <<3333>>}

\* np.median of a non-empty list
Median(values) ==
    LET n      == Len(values)
        order  == SortDescStable(values)
        sorted == [r \in 1..n |-> values[order[r]]]
    IN  IF n % 2 = 1 THEN Frac(sorted[(n + 1) \div 2], 1)
        ELSE Frac(sorted[n \div 2] + sorted[n \div 2 + 1], 2)

\* the threshold taken as the median of all margins
ThresholdInForce_AllMargins(products, threshold) ==
    IF threshold # <<>> THEN Frac(threshold[1], 1)
    ELSE Median([i \in 1..Len(products) |-> products[i].margin_percent])

\* margin_threshold after the block 'if margin_threshold is None'
ThresholdInForce(products, threshold) ==
    LET margins == SelectSeq([i \in 1..Len(products) |-> products[i].margin_percent],
                             LAMBDA m : m > 0)
    IN  IF threshold # <<>> THEN Frac(threshold[1], 1)
        ELSE IF margins # <<>> THEN Median(margins)
        ELSE Frac(MARGIN_THRESHOLD, 1)

\* is_high_margin with the comparison strict
IsHighMargin_Strict(margin_percent, threshold) ==
    ~FracLeq(Frac(margin_percent, 1), threshold)

\* product.margin_percent >= margin_threshold
IsHighMargin(margin_percent, threshold) ==
    FracLeq(threshold, Frac(margin_percent, 1))

\* the if / elif / else on abc_category and is_high_margin: the category
\* and the recommendation
GoListCategoryOf(abc_category, is_high_margin) ==
    IF abc_category = "A"
    THEN IF is_high_margin
         THEN [go_cat |-> "stars", rec |-> "Promote and feature prominently"]
         ELSE [go_cat |-> "workhorses",
               rec |-> "Consider increasing price or reducing cost"]
    ELSE IF abc_category = "B"
    THEN IF is_high_margin
         THEN [go_cat |-> "potential", rec |-> "Increase visibility and promotion"]
         ELSE [go_cat |-> "standard", rec |-> "Maintain current position"]
    ELSE IF is_high_margin
         THEN [go_cat |-> "puzzles", rec |-> "Investigate why sales are low"]
         ELSE [go_cat |-> "dogs", rec |-> "Consider removing from menu"]

GoListItem(product, threshold) ==
    LET chosen == GoListCategoryOf(product.abc_category,
                                   IsHighMargin(product.margin_percent, threshold))
    IN  [product_id       |-> product.product_id,
         abc_category     |-> product.abc_category,
         margin_percent   |-> product.margin_percent,
         go_list_category |-> chosen.go_cat,
         recommendation   |-> chosen.rec,
         revenue          |-> product.revenue,
         profit           |-> product.profit]

InitGoList ==
    /\ pc = "go_list"
    /\ \E n \in 0..MaxProducts : \E rows \in [1..n -> SalesRows] :
            /\ RevenueDescending(rows)
            /\ sales_data = WithProductId(rows)
    /\ margin_threshold \in MarginThresholds
    /\ go_list_result = Null
    /\ metric = Null /\ abc_result = Null
    /\ z_score = Null /\ severity = Null
    /\ data = Null /\ anomalies = Null
    /\ BasketIdle /\ CrossSellIdle /\ ForecastIdle /\ AccuracyIdle /\ RerunIdle
    /\ FinalIdle

GoListRestUnchanged ==
    /\ UNCHANGED <<sales_data, metric, margin_threshold>>
    /\ UNCHANGED <<severity_vars, daily_vars, basket_vars>>
    /\ UNCHANGED <<cross_sell_vars, forecast_vars, accuracy_vars, rerun_vars>>
    /\ UNCHANGED final_vars

\* if not abc_result.products: return GoListResult(items=[], summary={})
go_list_empty ==
    /\ pc = "go_list"
    /\ abc_result' = AbcAnalysisOf(sales_data, "revenue")
    /\ abc_result'.products = <<>>
    /\ go_list_result' = [items |-> <<>>, margin_threshold |-> margin_threshold]
    /\ pc' = "go_list_done"
    /\ GoListRestUnchanged

go_list ==
    /\ pc = "go_list"
    /\ abc_result' = AbcAnalysisOf(sales_data, "revenue")
    /\ abc_result'.products # <<>>
    /\ \E threshold \in {ThresholdInForce(abc_result'.products, margin_threshold)} :
          go_list_result' =
              [items |-> [i \in 1..Len(abc_result'.products) |->
                            GoListItem(abc_result'.products[i], threshold)],
               margin_threshold |-> threshold]
    /\ pc' = "go_list_done"
    /\ GoListRestUnchanged

NextGoList == go_list_empty \/ go_list

SpecGoList == InitGoList /\ [][NextGoList]_vars

GoListDone == pc = "go_list_done"

\* the category of the matrix for an ABC category and a margin side
GoListMatrix ==
    [A |-> [high |-> "stars",     low |-> "workhorses"],
     B |-> [high |-> "potential", low |-> "standard"],
     C |-> [high |-> "puzzles",   low |-> "dogs"]]

\* C20: go_list returns one item for every classified product, whose
\* category is the one the matrix fixes for its ABC category and for
\* margin_percent >= threshold, and whose recommendation is not empty.
C20_SixFixedCategories ==
    GoListDone =>
        LET items == go_list_result.items
        IN  /\ Len(items) = Len(abc_result.products)
            /\ \A i \in 1..Len(items) :
                  LET product == abc_result.products[i]
                      side == IF go_list_result.margin_threshold.num
                                     <= product.margin_percent
                                        * go_list_result.margin_threshold.den
                              THEN "high" ELSE "low"
                  IN  /\ items[i].product_id = product.product_id
                      /\ items[i].abc_category = product.abc_category
                      /\ items[i].go_list_category
                            = GoListMatrix[product.abc_category][side]
                      /\ items[i].recommendation # ""

C20_Witness ==
    /\ GoListDone
    /\ Len(go_list_result.items) = 3
    /\ go_list_result.items[1].go_list_category = "stars"
    /\ go_list_result.items[2].go_list_category = "potential"
    /\ go_list_result.items[2].margin_percent = 3333
    /\ go_list_result.margin_threshold = Frac(3333, 1)
    /\ go_list_result.items[3].go_list_category = "dogs"

\* the positive margins of the classified products, by position
PositiveMargins ==
    {i \in 1..Len(abc_result.products) : abc_result.products[i].margin_percent > 0}

MarginAt(i) == abc_result.products[i].margin_percent

\* t is the median of the positive margins: at most half of them lie below
\* it, at most half above it, and it is halfway between the nearest ones on
\* either side of it
IsMedianOfPositiveMargins(t) ==
    /\ 2 * Cardinality({i \in PositiveMargins : MarginAt(i) * t.den < t.num})
          <= Cardinality(PositiveMargins)
    /\ 2 * Cardinality({i \in PositiveMargins : MarginAt(i) * t.den > t.num})
          <= Cardinality(PositiveMargins)
    /\ \E lo, hi \in PositiveMargins :
          /\ MarginAt(lo) * t.den <= t.num /\ t.num <= MarginAt(hi) * t.den
          /\ \A i \in PositiveMargins :
                MarginAt(i) <= MarginAt(lo) \/ MarginAt(i) >= MarginAt(hi)
          /\ 2 * t.num = (MarginAt(lo) + MarginAt(hi)) * t.den

-----------------------------------------------------------------------------
(***************************************************************************)
(* MenuAnalysisService.xyz_analysis (services/reports/menu.py).            *)
(*                                                                         *)
(* daily_quantities is product_daily_sales as the list of its values, in   *)
(* dict order: one series of daily quantities per product.  The            *)
(* quantities of the model are integers, for which the mean and the        *)
(* standard deviation of a series on a threshold of the classification     *)
(* are exact in doubles, so cv is compared exactly: with V = n * sum(x^2)  *)
(* - sum(x)^2 and S = sum(x), cv = 100 * sqrt(V) / S.  The fields rounded  *)
(* to 2 places are in units of 0.01.                                       *)
(***************************************************************************)
MaxDays == 2

XYZ_X_THRESHOLD == 10

XYZ_Y_THRESHOLD == 25

DailyQuantityValues == {0, 9, 11, 15, 18, 22}

\* series with a mean that is not positive
ReturnedQuantities == {<<-9>>, <<-18>>, <<-9, 9>>, <<-18, 0>>}

SumOfSquares(x) == SumSeq([i \in 1..Len(x) |-> x[i] * x[i]])

\* len(x)^2 times the population variance of x
VarianceTimesN2(x) == Len(x) * SumOfSquares(x) - SumSeq(x) * SumSeq(x)

\* round(np.std(x), 2)
StdDev2(x) ==
    LET AtLeast(k) ==
            k = 0 \/ (2 * k - 1) * (2 * k - 1) * Len(x) * Len(x)
                        <= 40000 * VarianceTimesN2(x)
    IN  Greatest(AtLeast, 0, 5000)

\* round(cv, 2) for cv = std_dev / avg_quantity * 100 if avg_quantity > 0
\* else 0
CoefficientOfVariation(x) ==
    LET AtLeast(k) ==
            k = 0 \/ LeqRatio((2 * k - 1) * (2 * k - 1), 400000000,
                              VarianceTimesN2(x), SumSeq(x) * SumSeq(x))
    IN  IF SumSeq(x) > 0 THEN Greatest(AtLeast, 0, 20000) ELSE 0

\* cv < threshold, for a threshold in percent
CvBelow(x, threshold) ==
    IF SumSeq(x) > 0
    THEN 10000 * VarianceTimesN2(x) < threshold * threshold * SumSeq(x) * SumSeq(x)
    ELSE 0 < threshold

\* cv <= threshold
CvAtMost(x, threshold) ==
    IF SumSeq(x) > 0
    THEN 10000 * VarianceTimesN2(x) <= threshold * threshold * SumSeq(x) * SumSeq(x)
    ELSE 0 <= threshold

\* XyzCategoryOf with the thresholds included in the lower class
XyzCategoryOf_Inclusive(x) ==
    IF CvAtMost(x, XYZ_X_THRESHOLD) THEN "X"
    ELSE IF CvAtMost(x, XYZ_Y_THRESHOLD) THEN "Y"
    ELSE "Z"

\* the if / elif / else on cv
XyzCategoryOf(x) ==
    IF CvBelow(x, XYZ_X_THRESHOLD) THEN "X"
    ELSE IF CvBelow(x, XYZ_Y_THRESHOLD) THEN "Y"
    ELSE "Z"

ProductXYZ(product_id, x) ==
    [product_id               |-> product_id,
     avg_daily_quantity       |-> RoundHalfEven(100 * SumSeq(x), Len(x)),
     std_dev                  |-> StdDev2(x),
     coefficient_of_variation |-> CoefficientOfVariation(x),
     xyz_category             |-> XyzCategoryOf(x)]

\* products_xyz.sort(key=lambda x: x.coefficient_of_variation)
SortByCv(unsorted) ==
    LET order == SortDescStable([i \in 1..Len(unsorted) |->
                                    -unsorted[i].coefficient_of_variation])
    IN  [r \in 1..Len(unsorted) |-> unsorted[order[r]]]

InitXyz ==
    /\ pc = "xyz_analysis"
    /\ \E k \in 0..2 :
          daily_quantities \in
              [1..k -> UNION {[1..n -> DailyQuantityValues] : n \in 1..MaxDays}
                       \cup ReturnedQuantities]
    /\ products_xyz = Null
    /\ sales_data = Null /\ metric = Null /\ abc_result = Null
    /\ z_score = Null /\ severity = Null
    /\ data = Null /\ anomalies = Null
    /\ BasketIdle /\ CrossSellIdle /\ ForecastIdle
    /\ AccuracyIdle /\ RerunIdle /\ GoListIdle
    /\ ReportIdle /\ HourlyIdle /\ ProfileIdle /\ TrendIdle /\ SyncIdle

xyz_analysis ==
    /\ pc = "xyz_analysis"
    /\ products_xyz' = SortByCv([i \in 1..Len(daily_quantities) |->
                                    ProductXYZ(i, daily_quantities[i])])
    /\ pc' = "xyz_done"
    /\ UNCHANGED <<daily_quantities, abc_vars, severity_vars, daily_vars, basket_vars>>
    /\ UNCHANGED <<cross_sell_vars, forecast_vars, accuracy_vars, rerun_vars, go_list_vars>>
    /\ UNCHANGED <<report_vars, hourly_vars, profile_vars, trend_vars, sync_vars>>

NextXyz == xyz_analysis

SpecXyz == InitXyz /\ [][NextXyz]_vars

XyzDone == pc = "xyz_done"

\* the series of the product of an entry of products_xyz
SeriesOf(entry) == daily_quantities[entry.product_id]

\* 100 * std / mean is below the percentage t, with the population standard
\* deviation, and 0 in the place of the quotient for a mean of 0; compared
\* on squares, with the sign of the mean
ExactCvBelow(x, t) ==
    LET n == Len(x)
        S == SumSeq(x)
        V == n * SumSeq([i \in 1..n |-> x[i] * x[i]]) - S * S
    IN  IF S = 0 THEN 0 < t
        ELSE IF S < 0 THEN TRUE
        ELSE 10000 * V < t * t * S * S

Doubled(x) == [i \in 1..Len(x) |-> 2 * x[i]]

-----------------------------------------------------------------------------
(* The summary of abc_analysis                                             *)

\* C23: for a non-empty input the summary of abc_analysis has an entry for
\* each of A, B and C, every product has one of the three categories, the
\* counts of the entries sum to the number of products, their revenues to
\* total_revenue and their profits to total_profit.
C23_SummaryPartitionsProducts ==
    (pc = "abc_done" /\ sales_data # <<>>) =>
        /\ DOMAIN abc_result.summary = {"A", "B", "C"}
        /\ \A i \in 1..Len(abc_result.products) :
              abc_result.products[i].abc_category \in {"A", "B", "C"}
        /\ abc_result.summary["A"].count + abc_result.summary["B"].count
              + abc_result.summary["C"].count = Len(sales_data)
        /\ abc_result.summary["A"].revenue + abc_result.summary["B"].revenue
              + abc_result.summary["C"].revenue = abc_result.total_revenue
        /\ abc_result.summary["A"].profit + abc_result.summary["B"].profit
              + abc_result.summary["C"].profit = abc_result.total_profit
        /\ abc_result.total_revenue
              = SumSeq([i \in 1..Len(sales_data) |-> sales_data[i].revenue])

C23_Witness ==
    /\ pc = "abc_done"
    /\ Len(sales_data) = 3
    /\ abc_result.summary["A"].count = 1
    /\ abc_result.summary["B"].count = 1
    /\ abc_result.summary["C"].count = 1
    /\ abc_result.summary["C"].profit < 0


-----------------------------------------------------------------------------
(* AnomalyDetectionService.generate_report                                 *)
(*                                                                         *)
(* The three detectors are queries; their results are the input of the     *)
(* report. An anomaly is kept by the fields the report reads:              *)
(* [anomaly_type, severity, date], date being date.toordinal().            *)

MaxDetections == 2

ReportDates == {1, 2}

Severities == {"critical", "high", "medium", "low"}

\* lists of at most n anomalies of the given types and severities
DetectionsOf(types, severities, n) ==
    UNION {[1..k -> [anomaly_type : types, severity : severities,
                     date : ReportDates]] : k \in 0..n}

severity_order == [critical |-> 0, high |-> 1, medium |-> 2, low |-> 3]

\* all_anomalies.sort(key=lambda x: (severity_order[x.severity],
\*                                   -x.date.toordinal()))
SortReport_OldestFirst(unsorted) ==
    LET order == SortDescStable([i \in 1..Len(unsorted) |->
                     0 - (severity_order[unsorted[i].severity] * 1000
                          + unsorted[i].date)])
    IN  [r \in 1..Len(unsorted) |-> unsorted[order[r]]]

SortReport(unsorted) ==
    LET order == SortDescStable([i \in 1..Len(unsorted) |->
                     0 - (severity_order[unsorted[i].severity] * 1000
                          - unsorted[i].date)])
    IN  [r \in 1..Len(unsorted) |-> unsorted[order[r]]]

\* len([a for a in all_anomalies if a.severity == s])
CountSeverity(list, s) ==
    Cardinality({i \in 1..Len(list) : list[i].severity = s})

\* critical_count > 0 or high_count > 2
RequiresAttention_TwoHigh(critical_count, high_count) ==
    critical_count > 0 \/ high_count >= 2

RequiresAttention(critical_count, high_count) ==
    critical_count > 0 \/ high_count > 2

\* _calculate_stats: the size of the list and the count of every severity
\* and every type that occurs in it
CalculateStats(list) ==
    [total_anomalies |-> Len(list),
     by_type     |-> [t \in {list[i].anomaly_type : i \in 1..Len(list)} |->
                        Cardinality({i \in 1..Len(list) : list[i].anomaly_type = t})],
     by_severity |-> [s \in {list[i].severity : i \in 1..Len(list)} |->
                        CountSeverity(list, s)]]

\* the detections generate_report merges, in the order it extends the list
AllAnomalies(found, with_products, with_hourly) ==
    found.daily \o (IF with_products THEN found.product ELSE <<>>)
                \o (IF with_hourly THEN found.hourly ELSE <<>>)

AnomalyReport(found, with_products, with_hourly) ==
    LET all_anomalies  == SortReport(AllAnomalies(found, with_products, with_hourly))
        critical_count == CountSeverity(all_anomalies, "critical")
        high_count     == CountSeverity(all_anomalies, "high")
    IN  [anomalies          |-> all_anomalies,
         stats              |-> CalculateStats(all_anomalies),
         critical_count     |-> critical_count,
         high_count         |-> high_count,
         requires_attention |-> RequiresAttention(critical_count, high_count)]

InitReport ==
    /\ pc = "generate_report"
    /\ \E d \in DetectionsOf({"revenue_drop"}, Severities, MaxDetections),
          p \in DetectionsOf({"product_spike"}, Severities, 1),
          h \in DetectionsOf({"hourly_anomaly"}, Severities \ {"low"}, 1) :
          detected = [daily |-> d, product |-> p, hourly |-> h]
    /\ include_products \in BOOLEAN
    /\ include_hourly \in BOOLEAN
    /\ report = Null
    /\ sales_data = Null /\ metric = Null /\ abc_result = Null
    /\ z_score = Null /\ severity = Null
    /\ data = Null /\ anomalies = Null
    /\ BasketIdle /\ CrossSellIdle /\ ForecastIdle
    /\ AccuracyIdle /\ RerunIdle /\ GoListIdle
    /\ XyzIdle /\ HourlyIdle /\ ProfileIdle /\ TrendIdle /\ SyncIdle

generate_report ==
    /\ pc = "generate_report"
    /\ report' = AnomalyReport(detected, include_products, include_hourly)
    /\ pc' = "report_done"
    /\ UNCHANGED <<detected, include_products, include_hourly>>
    /\ UNCHANGED <<abc_vars, severity_vars, daily_vars, basket_vars>>
    /\ UNCHANGED <<cross_sell_vars, forecast_vars, accuracy_vars, rerun_vars, go_list_vars>>
    /\ UNCHANGED <<xyz_vars, hourly_vars, profile_vars, trend_vars, sync_vars>>

NextReport == generate_report

SpecReport == InitReport /\ [][NextReport]_vars

ReportDone == pc = "report_done"

\* C24: in every report critical_count and high_count are the numbers of
\* anomalies of the report's list with severity critical and high, and
\* requires_attention is true exactly when critical_count > 0 or
\* high_count > 2.
C24_CountsAndAttention ==
    ReportDone =>
        /\ report.critical_count =
               Cardinality({i \in DOMAIN report.anomalies :
                               report.anomalies[i].severity = "critical"})
        /\ report.high_count =
               Cardinality({i \in DOMAIN report.anomalies :
                               report.anomalies[i].severity = "high"})
        /\ report.requires_attention \in BOOLEAN
        /\ report.requires_attention <=>
               (report.critical_count > 0 \/ report.high_count > 2)

\* two high anomalies and no critical one: no attention required
C24_Witness ==
    /\ ReportDone
    /\ report.critical_count = 0
    /\ report.high_count = 2
    /\ Len(report.anomalies) = 4
    /\ ~report.requires_attention

C24_WitnessThreeHigh ==
    /\ ReportDone
    /\ report.critical_count = 0
    /\ report.high_count = 3
    /\ report.requires_attention

\* the number of times the anomaly a occurs in list
Occurrences(list, a) == Cardinality({i \in DOMAIN list : list[i] = a})

\* C26: the list of the report holds every detection of the enabled
\* detectors exactly once (and nothing of a detector that is switched off),
\* ordered from critical down to low and, within one severity, from the
\* most recent date to the oldest.
C26_MergedAndOrdered ==
    ReportDone =>
        LET enabled == detected.daily
                       \o (IF include_products THEN detected.product ELSE <<>>)
                       \o (IF include_hourly THEN detected.hourly ELSE <<>>)
            list    == report.anomalies
            Rank(a) == CASE a.severity = "critical" -> 0
                         [] a.severity = "high"     -> 1
                         [] a.severity = "medium"   -> 2
                         [] a.severity = "low"      -> 3
        IN  /\ Len(list) = Len(enabled)
            /\ \A i \in DOMAIN enabled :
                   Occurrences(list, enabled[i]) = Occurrences(enabled, enabled[i])
            /\ \A i, j \in DOMAIN list :
                   i < j =>
                       \/ Rank(list[i]) < Rank(list[j])
                       \/ /\ Rank(list[i]) = Rank(list[j])
                          /\ list[i].date >= list[j].date

\* an older critical detection of the product detector overtakes two daily
\* detections, the hourly detector is switched off
C26_Witness ==
    /\ ReportDone
    /\ include_products /\ ~include_hourly
    /\ Len(detected.hourly) = 1
    /\ Len(report.anomalies) = 3
    /\ report.anomalies[1].anomaly_type = "product_spike"
    /\ report.anomalies[2].severity = "low"
    /\ report.anomalies[2].date = 2
    /\ report.anomalies[3].severity = "low"
    /\ report.anomalies[3].date = 1
    /\ detected.daily[1].date = 1


-----------------------------------------------------------------------------
(* AnomalyDetectionService.detect_hourly_anomalies                         *)
(*                                                                         *)
(* hourly_data holds the rows of the query, [date, hour, revenue], ordered *)
(* by date and hour; revenue is an integer.                                *)

HourlyReadings == {4, 5, 11, 18}

Hours == {9, 20}

\* the readings of one hour over n days: 100 on every day but the first two
HourlySeries ==
    {[d \in 1..n |-> IF d = 1 THEN a ELSE IF d = 2 THEN b ELSE 100] :
        n \in HourlyReadings, a \in {0, 100, 300}, b \in {100, 110, 300}}

\* the rows of the query for the readings of every hour, ORDER BY date, hour
RECURSIVE HourlyRows(_, _)
HourlyRows(by_hour, d) ==
    IF \A h \in Hours : Len(by_hour[h]) < d THEN <<>>
    ELSE (IF Len(by_hour[9]) >= d
          THEN <<[date |-> d, hour |-> 9, revenue |-> by_hour[9][d]]>> ELSE <<>>)
         \o (IF Len(by_hour[20]) >= d
             THEN <<[date |-> d, hour |-> 20, revenue |-> by_hour[20][d]]>> ELSE <<>>)
         \o HourlyRows(by_hour, d + 1)

\* hourly_data[hour]: the revenues of the rows of that hour, in row order
RECURSIVE TypicalValues(_, _)
TypicalValues(rows, hour) ==
    IF rows = <<>> THEN <<>>
    ELSE (IF Head(rows).hour = hour THEN <<Head(rows).revenue>> ELSE <<>>)
         \o TypicalValues(Tail(rows), hour)

\* the loop body without the test abs(z_score) < 3
DetectHourlyAt_NoFilter(rows, pos) ==
    LET typical_values == TypicalValues(rows, rows[pos].hour)
        mean == NpMean(typical_values)
        std == NpStd(typical_values)
        z == calculate_z_score(rows[pos].revenue, mean, std)
        sev == get_severity(z)
    IN  IF Len(typical_values) < 5 THEN <<>>
        ELSE IF std.rad = 0 THEN <<>>
        ELSE IF sev = Null THEN <<>>
        ELSE << [ anomaly_type |-> "hourly_anomaly",
                  severity     |-> sev,
                  date         |-> rows[pos].date,
                  hour         |-> rows[pos].hour,
                  actual_value |-> rows[pos].revenue * 100,
                  expected_value |-> RoundHalfEven(mean.num * 100, mean.den),
                  z_score      |-> z ] >>

\* One iteration of the loop over rows: <<>> where it continues, else the
\* anomaly appended. z_score is kept exact (the code quantizes it to 0.01);
\* the texts are left out.
DetectHourlyAt(rows, pos) ==
    LET typical_values == TypicalValues(rows, rows[pos].hour)
        mean == NpMean(typical_values)
        std == NpStd(typical_values)
        z == calculate_z_score(rows[pos].revenue, mean, std)
        sev == get_severity(z)
    IN  IF Len(typical_values) < 5 THEN <<>>
        ELSE IF std.rad = 0 THEN <<>>
        ELSE IF sev = Null THEN <<>>
        ELSE IF ~AbsAtLeast(z, 3) THEN <<>>
        ELSE << [ anomaly_type |-> "hourly_anomaly",
                  severity     |-> sev,
                  date         |-> rows[pos].date,
                  hour         |-> rows[pos].hour,
                  actual_value |-> rows[pos].revenue * 100,
                  expected_value |-> RoundHalfEven(mean.num * 100, mean.den),
                  z_score      |-> z ] >>

RECURSIVE DetectHourlyFrom(_, _)
DetectHourlyFrom(rows, pos) ==
    IF pos > Len(rows) THEN <<>>
    ELSE DetectHourlyAt(rows, pos) \o DetectHourlyFrom(rows, pos + 1)

InitHourly ==
    /\ pc = "detect_hourly_anomalies"
    /\ \E by_hour \in [Hours -> HourlySeries \cup {<<>>}] :
           hourly_data = HourlyRows(by_hour, 1)
    /\ hourly_anomalies = Null
    /\ sales_data = Null /\ metric = Null /\ abc_result = Null
    /\ z_score = Null /\ severity = Null
    /\ data = Null /\ anomalies = Null
    /\ BasketIdle /\ CrossSellIdle /\ ForecastIdle
    /\ AccuracyIdle /\ RerunIdle /\ GoListIdle
    /\ XyzIdle /\ ReportIdle /\ ProfileIdle /\ TrendIdle /\ SyncIdle

HourlyRestUnchanged ==
    /\ UNCHANGED <<hourly_data, abc_vars, severity_vars, daily_vars, basket_vars>>
    /\ UNCHANGED <<cross_sell_vars, forecast_vars, accuracy_vars, rerun_vars, go_list_vars>>
    /\ UNCHANGED <<xyz_vars, report_vars, profile_vars, trend_vars, sync_vars>>

\* if not rows: return []
detect_hourly_anomalies_empty ==
    /\ pc = "detect_hourly_anomalies"
    /\ hourly_data = <<>>
    /\ hourly_anomalies' = <<>>
    /\ pc' = "hourly_done"
    /\ HourlyRestUnchanged

detect_hourly_anomalies ==
    /\ pc = "detect_hourly_anomalies"
    /\ hourly_data # <<>>
    /\ hourly_anomalies' = DetectHourlyFrom(hourly_data, 1)
    /\ pc' = "hourly_done"
    /\ HourlyRestUnchanged

NextHourly == detect_hourly_anomalies_empty \/ detect_hourly_anomalies

SpecHourly == InitHourly /\ [][NextHourly]_vars

HourlyDone == pc = "hourly_done"

\* the revenues of all rows of the hour h
ReadingsAt(h) ==
    LET at == {i \in DOMAIN hourly_data : hourly_data[i].hour = h}
    IN  [r \in 1..Cardinality(at) |->
            hourly_data[CHOOSE i \in at : Cardinality({j \in at : j < i}) = r - 1].revenue]

\* C25: every anomaly of detect_hourly_anomalies has |z| >= 3 against the
\* mean and the population standard deviation of all readings of its hour
\* (its own reading among them), so its severity is never low; an hour with
\* fewer than 5 readings or with zero deviation yields no anomaly.
C25_HourlyAnomaliesAreSignificant ==
    HourlyDone =>
        \A k \in DOMAIN hourly_anomalies :
            LET a == hourly_anomalies[k]
                x == ReadingsAt(a.hour)
                n == Len(x)
                S == SumSeq(x)
                Q == SumSeq([i \in 1..n |-> x[i] * x[i]])
                own == a.actual_value \div 100
            IN  /\ n >= 5
                /\ n * Q - S * S > 0
                /\ \E i \in 1..n : x[i] = own
                /\ (n * own - S) * (n * own - S) >= 9 * (n * Q - S * S)
                /\ a.severity \in {"medium", "high", "critical"}

\* one reading of 0 among eleven of hour 9 is reported; hour 20 has four
\* readings only, one of them far off
C25_Witness ==
    /\ HourlyDone
    /\ Len(hourly_anomalies) = 1
    /\ hourly_anomalies[1].hour = 9
    /\ hourly_anomalies[1].severity = "medium"
    /\ Len(ReadingsAt(9)) = 11
    /\ Len(ReadingsAt(20)) = 4
    /\ ReadingsAt(20)[1] = 300

C25_WitnessHigh ==
    /\ HourlyDone
    /\ \E k \in DOMAIN hourly_anomalies : hourly_anomalies[k].severity = "high"


-----------------------------------------------------------------------------
(* BasketAnalysisService.calculate_basket_profile                          *)
(*                                                                         *)
(* baskets holds the rows of the query, [item_count, category_count,       *)
(* total]; the inner join with the receipt items gives every row an        *)
(* item_count of at least 1.  total is in units of 0.01; the averages and  *)
(* percentages are kept in the units the code quantizes them to (0.1, and  *)
(* 0.01 for avg_value).                                                    *)

MaxPerSize == 2

BasketSizes == <<1, 2, 3, 4, 6, 7, 9>>

\* per_size[k] rows of BasketSizes[k] items each, for every k from k on
RECURSIVE BasketRows(_, _)
BasketRows(per_size, k) ==
    IF k > Len(BasketSizes) THEN <<>>
    ELSE [i \in 1..per_size[k] |->
             [item_count     |-> BasketSizes[k],
              category_count |-> IF BasketSizes[k] < 3 THEN BasketSizes[k] ELSE 3,
              total          |-> 250 * BasketSizes[k]]]
         \o BasketRows(per_size, k + 1)

\* sum(1 for r in rows if <test on r.item_count>)
CountBaskets(rows, Test(_)) ==
    Cardinality({i \in 1..Len(rows) : Test(rows[i].item_count)})

SingleBasket(item_count) == item_count = 1

SmallBasket(item_count) == 2 <= item_count /\ item_count <= 3

MediumBasket_UpToFive(item_count) == 4 <= item_count /\ item_count <= 5

MediumBasket(item_count) == 4 <= item_count /\ item_count <= 6

LargeBasket(item_count) == item_count >= 7

\* Decimal(str(count / total_baskets * 100)).quantize(Decimal("0.1"))
BasketPercent(count, total_baskets) == RoundHalfEven(count * 1000, total_baskets)

ZeroProfile ==
    [avg_items |-> 0, avg_value |-> 0, avg_categories |-> 0,
     single_item_percent |-> 0, small_basket_percent |-> 0,
     medium_basket_percent |-> 0, large_basket_percent |-> 0]

BasketProfileOf(rows) ==
    LET total_baskets    == Len(rows)
        total_items      == SumSeq([i \in 1..Len(rows) |-> rows[i].item_count])
        total_value      == SumSeq([i \in 1..Len(rows) |-> rows[i].total])
        total_categories == SumSeq([i \in 1..Len(rows) |-> rows[i].category_count])
    IN  [avg_items      |-> RoundHalfEven(total_items * 10, total_baskets),
         avg_value      |-> RoundHalfEven(total_value, total_baskets),
         avg_categories |-> RoundHalfEven(total_categories * 10, total_baskets),
         single_item_percent   |->
             BasketPercent(CountBaskets(rows, SingleBasket), total_baskets),
         small_basket_percent  |->
             BasketPercent(CountBaskets(rows, SmallBasket), total_baskets),
         medium_basket_percent |->
             BasketPercent(CountBaskets(rows, MediumBasket), total_baskets),
         large_basket_percent  |->
             BasketPercent(CountBaskets(rows, LargeBasket), total_baskets)]

InitProfile ==
    /\ pc = "calculate_basket_profile"
    /\ \E per_size \in [1..Len(BasketSizes) -> 0..MaxPerSize] :
           baskets = BasketRows(per_size, 1)
    /\ basket_profile = Null
    /\ sales_data = Null /\ metric = Null /\ abc_result = Null
    /\ z_score = Null /\ severity = Null
    /\ data = Null /\ anomalies = Null
    /\ BasketIdle /\ CrossSellIdle /\ ForecastIdle
    /\ AccuracyIdle /\ RerunIdle /\ GoListIdle
    /\ XyzIdle /\ ReportIdle /\ HourlyIdle /\ TrendIdle /\ SyncIdle

ProfileRestUnchanged ==
    /\ UNCHANGED <<baskets, abc_vars, severity_vars, daily_vars, basket_vars>>
    /\ UNCHANGED <<cross_sell_vars, forecast_vars, accuracy_vars, rerun_vars, go_list_vars>>
    /\ UNCHANGED <<xyz_vars, report_vars, hourly_vars, trend_vars, sync_vars>>

\* if not rows: return BasketProfile(0, ...)
calculate_basket_profile_empty ==
    /\ pc = "calculate_basket_profile"
    /\ baskets = <<>>
    /\ basket_profile' = ZeroProfile
    /\ pc' = "profile_done"
    /\ ProfileRestUnchanged

calculate_basket_profile ==
    /\ pc = "calculate_basket_profile"
    /\ baskets # <<>>
    /\ basket_profile' = BasketProfileOf(baskets)
    /\ pc' = "profile_done"
    /\ ProfileRestUnchanged

NextProfile == calculate_basket_profile_empty \/ calculate_basket_profile

SpecProfile == InitProfile /\ [][NextProfile]_vars

ProfileDone == pc = "profile_done"

\* p, in units of 0.1 percent, is the share of part in whole rounded to one
\* decimal place
IsShare(p, part, whole) ==
    /\ 2 * (p * whole - 1000 * part) <= whole
    /\ 2 * (1000 * part - p * whole) <= whole

\* the baskets whose item count lies in lo..hi
Bucket(lo, hi) ==
    {i \in DOMAIN baskets : lo <= baskets[i].item_count /\ baskets[i].item_count <= hi}

\* C27: every basket lies in exactly one of the buckets 1, 2-3, 4-6 and 7
\* or more items; each of the four percentages is the share of its bucket
\* in all baskets, rounded to 0.1, and they sum to 100 within that
\* rounding; without baskets every field is 0.
C27_BucketsPartitionBaskets ==
    ProfileDone =>
        IF baskets = <<>>
        THEN \A f \in DOMAIN basket_profile : basket_profile[f] = 0
        ELSE LET n == Len(baskets)
                 total == basket_profile.single_item_percent
                          + basket_profile.small_basket_percent
                          + basket_profile.medium_basket_percent
                          + basket_profile.large_basket_percent
             IN  /\ Bucket(1, 1) \cup Bucket(2, 3) \cup Bucket(4, 6) \cup Bucket(7, 1000)
                        = DOMAIN baskets
                 /\ IsShare(basket_profile.single_item_percent,
                            Cardinality(Bucket(1, 1)), n)
                 /\ IsShare(basket_profile.small_basket_percent,
                            Cardinality(Bucket(2, 3)), n)
                 /\ IsShare(basket_profile.medium_basket_percent,
                            Cardinality(Bucket(4, 6)), n)
                 /\ IsShare(basket_profile.large_basket_percent,
                            Cardinality(Bucket(7, 1000)), n)
                 /\ 998 <= total /\ total <= 1002

\* three baskets, one of 1, one of 6 and one of 9 items: 33.3 percent each
C27_Witness ==
    /\ ProfileDone
    /\ Len(baskets) = 3
    /\ basket_profile.single_item_percent = 333
    /\ basket_profile.small_basket_percent = 0
    /\ basket_profile.medium_basket_percent = 333
    /\ basket_profile.large_basket_percent = 333
    /\ \E i \in DOMAIN baskets : baskets[i].item_count = 6

C27_WitnessEmpty == ProfileDone /\ baskets = <<>> /\ basket_profile.avg_items = 0


-----------------------------------------------------------------------------
\* C28: after every successful fit the confidence _forecast_product returns
\* lies in [30, 100] (300..1000 in units of 0.1), whatever the length of the
\* series and the ratio of its deviation to its mean, a mean of 0 included.
C28_ConfidenceInRange ==
    [][forecast_product_ok =>
          (forecast_confidence' >= 300 /\ forecast_confidence' <= 1000)]_vars

\* a fitted series of one 2 and thirteen 0: deviation 3.7 times the mean,
\* the confidence is held at 30
C28_Witness ==
    /\ ForecastDone
    /\ prophet.fit = "ok"
    /\ HistoryLen(history) = 14
    /\ HistorySum(history) = 2
    /\ Len(forecast_points) >= 1
    /\ "quantity" \in DOMAIN forecast_points[1]
    /\ forecast_confidence = 300

\* a fitted series of mean 0
C28_WitnessZeroMean ==
    /\ ForecastDone
    /\ prophet.fit = "ok"
    /\ HistoryLen(history) = 17
    /\ HistorySumSq(history) = 0
    /\ Len(forecast_points) >= 1
    /\ "quantity" \in DOMAIN forecast_points[1]
    /\ forecast_confidence = 670

\* a fitted constant series
C28_WitnessConstant ==
    /\ ForecastDone
    /\ prophet.fit = "ok"
    /\ HistorySum(history) = 34 /\ HistoryLen(history) = 17
    /\ Len(forecast_points) >= 1
    /\ "quantity" \in DOMAIN forecast_points[1]
    /\ forecast_confidence = 1000


-----------------------------------------------------------------------------
(* Arithmetic of doubles for DemandForecastService._calculate_trend.       *)
(*                                                                         *)
(* A natural number below 2^65 is held as BigLen limbs of LimbBits bits,   *)
(* most significant first; the significand of a double is the number       *)
(* 1.b2...b53 * 2^52.  Every operation rounds to nearest, ties to even.    *)

BigLen == LimbCount + 1

BigBitCount == BigLen * LimbBits

Zeros(n) == [i \in 1..n |-> 0]

\* the BigLen limbs Limb(1), ..., written out
Big(Limb(_)) == <<Limb(1), Limb(2), Limb(3), Limb(4), Limb(5)>>

\* the limbs of the number with the binary digits bits
BigOfBits(bits) ==
    LET padded == Zeros(BigBitCount - Len(bits)) \o bits
        Limb(k) == FromBits(SubSeq(padded, 1 + (k - 1) * LimbBits, k * LimbBits),
                            LimbBits)
    IN  Big(Limb)

\* the BigBitCount binary digits of a number
BigBits(a) ==
    [i \in 1..BigBitCount |->
        (a[(i - 1) \div LimbBits + 1]
            \div 2 ^ (LimbBits - 1 - ((i - 1) % LimbBits))) % 2]

BigLess(a, b) ==
    \E i \in 1..BigLen : a[i] < b[i] /\ \A j \in 1..(i - 1) : a[j] = b[j]

\* a - b for a >= b: a limb borrows when the limbs below it are smaller
BigSub(a, b) ==
    LET Borrow(i) == \E j \in (i + 1)..BigLen :
                         a[j] < b[j] /\ \A k \in (i + 1)..(j - 1) : a[k] = b[k]
        Limb(i)   == (LimbBase + a[i] - b[i] - (IF Borrow(i) THEN 1 ELSE 0))
                         % LimbBase
    IN  Big(Limb)

\* a + b (below 2^65)
BigAdd(a, b) ==
    LET Carry(i) == \E j \in (i + 1)..BigLen :
                        /\ a[j] + b[j] >= LimbBase
                        /\ \A k \in (i + 1)..(j - 1) : a[k] + b[k] = LimbBase - 1
        Limb(i)  == (a[i] + b[i] + (IF Carry(i) THEN 1 ELSE 0)) % LimbBase
    IN  Big(Limb)

\* 2 * a (below 2^65)
BigDouble(a) ==
    LET Limb(i) ==
            (2 * a[i] + (IF i < BigLen THEN a[i + 1] \div (LimbBase \div 2) ELSE 0))
                % LimbBase
    IN  Big(Limb)

BigZero == <<0, 0, 0, 0, 0>>

\* bits without its leading zeros
StripZeros(bits) ==
    LET first == CHOOSE i \in 1..Len(bits) :
                     bits[i] = 1 /\ \A j \in 1..(i - 1) : bits[j] = 0
    IN  SubSeq(bits, first, Len(bits))

FloatZero == [sign |-> 0, bits |-> <<>>, exp |-> 0]

\* the double nearest to sign * 1.b2b3... * 2^exp, where bits (bits[1] = 1)
\* may be longer than a significand and sticky tells of a non-zero rest
\* below the last bit
RoundToDouble(sign, bits, exp, sticky) ==
    IF Len(bits) <= MANT_DIG
    THEN [sign |-> sign, bits |-> bits \o Zeros(MANT_DIG - Len(bits)), exp |-> exp]
    ELSE LET top == SubSeq(bits, 1, MANT_DIG)
             up  == /\ bits[MANT_DIG + 1] = 1
                    /\ \/ top[MANT_DIG] = 1
                       \/ sticky
                       \/ \E j \in (MANT_DIG + 2)..Len(bits) : bits[j] = 1
             rb  == RoundBits(top, exp, up)
         IN  [sign |-> sign, bits |-> rb.bits, exp |-> rb.exp]

FloatNeg(x) == [sign |-> 0 - x.sign, bits |-> x.bits, exp |-> x.exp]

\* x - y for doubles whose exponents differ by less than LimbBits - 1
FloatSub(x, y) ==
    IF y.sign = 0 THEN x
    ELSE IF x.sign = 0 THEN FloatNeg(y)
    ELSE LET emin == IF x.exp < y.exp THEN x.exp ELSE y.exp
             a    == BigOfBits(x.bits \o Zeros(x.exp - emin))
             b    == BigOfBits(y.bits \o Zeros(y.exp - emin))
             n    == IF x.sign # y.sign THEN BigAdd(a, b)
                     ELSE IF BigLess(a, b) THEN BigSub(b, a) ELSE BigSub(a, b)
             sign == IF x.sign # y.sign THEN x.sign
                     ELSE IF BigLess(a, b) THEN 0 - x.sign ELSE x.sign
         IN  IF n = BigZero THEN FloatZero
             ELSE LET bits == StripZeros(BigBits(n))
                  IN  RoundToDouble(sign, bits, emin - (MANT_DIG - 1) + Len(bits) - 1,
                                    FALSE)

\* the binary digits q followed by the next k digits of r / d (r < d), and
\* the remainder after them
RECURSIVE DivSteps(_, _, _, _)
DivSteps(r, d, k, q) ==
    IF k = 0 THEN [q |-> q, r |-> r]
    ELSE IF BigLess(BigDouble(r), d)
         THEN DivSteps(BigDouble(r), d, k - 1, Append(q, 0))
         ELSE DivSteps(BigSub(BigDouble(r), d), d, k - 1, Append(q, 1))

\* the double nearest to the quotient whose digits and remainder are steps
RoundQuotient(sign, steps, exp) ==
    RoundToDouble(sign, steps.q, exp, steps.r # BigZero)

\* the double nearest to a / b * 2^exp for significands a and b
DivSignificands(sign, a, b, exp) ==
    IF BigLess(a, b)
    THEN RoundQuotient(sign, DivSteps(a, b, MANT_DIG + 1, <<>>), exp - 1)
    ELSE RoundQuotient(sign, DivSteps(BigSub(a, b), b, MANT_DIG, <<1>>), exp)

\* x / y for doubles, y # 0
FloatDiv(x, y) ==
    IF x.sign = 0 THEN FloatZero
    ELSE DivSignificands(x.sign * y.sign, BigOfBits(x.bits), BigOfBits(y.bits),
                         x.exp - y.exp)

\* x < y for doubles
FloatLess(x, y) ==
    LET Smaller(u, v) ==
            \/ u.exp < v.exp
            \/ /\ u.exp = v.exp
               /\ \E i \in 1..MANT_DIG :
                      u.bits[i] < v.bits[i] /\ \A j \in 1..(i - 1) : u.bits[j] = v.bits[j]
    IN  IF x.sign # y.sign THEN x.sign < y.sign
        ELSE IF x.sign = 1 THEN Smaller(x, y)
        ELSE IF x.sign = -1 THEN Smaller(y, x)
        ELSE FALSE

\* Decimal(str(x)).quantize(Decimal("0.1")) in units of 0.1: 10 * x to the
\* nearest integer, ties to even.  The digits str() drops lie far below
\* the first decimal place for the values of the model.
QuantizeTenths(x) ==
    IF x.sign = 0 THEN 0
    ELSE LET mul   == MulLimbs(LimbsOf(x.bits), LimbCount, 10, 0)
             prod  == ToBits(10 + mul.carry) \o BitsOf(mul.limbs)
             whole == Len(prod) - (MANT_DIG - 1) + x.exp
             n     == IF whole <= 0 THEN 0 ELSE FromBits(prod, whole)
             half  == whole >= 0 /\ prod[whole + 1] = 1
             rest  == \E j \in (whole + 2)..Len(prod) : j >= 1 /\ prod[j] = 1
             up    == half /\ (rest \/ n % 2 = 1)
         IN  x.sign * (IF up THEN n + 1 ELSE n)


-----------------------------------------------------------------------------
(* DemandForecastService._calculate_trend                                  *)
(*                                                                         *)
(* trend_data is the y column of the frame, integers here; the means and   *)
(* change_percent are doubles.  The percent returned is in units of 0.1.   *)

\* n values: first_n of them first, then other
Part(first, first_n, other, n) ==
    [i \in 1..n |-> IF i <= first_n THEN first ELSE other]

TrendParts ==
    {Part(4, k, 5, n) : k \in {0, 2, 5}, n \in {6, 7, 8}}
        \cup {Part(v, 0, v, n) : v \in {0, -10}, n \in {6, 7, 8}}

\* series.mean(): the sum, exact for these integers, divided by the count
SeriesMean(series) == float(Decimal(SumSeq(series), Len(series)))

TEN == float(Decimal(10, 1))

\* if change_percent > 10: "up" elif change_percent < -10: "down"
\* else: "stable"
TrendOf(change_percent) ==
    IF FloatLess(TEN, change_percent) THEN "up"
    ELSE IF FloatLess(change_percent, FloatNeg(TEN)) THEN "down"
    ELSE "stable"

\* (second_half_avg - first_half_avg) / first_half_avg * 100
ChangePercent(first_half_avg, second_half_avg) ==
    IntTimesFloat(100, FloatDiv(FloatSub(second_half_avg, first_half_avg),
                                first_half_avg))

Mid(series) == Len(series) \div 2

\* data.iloc[:mid]['y']
FirstHalf(series) == SubSeq(series, 1, Mid(series))

\* data.iloc[mid:]['y']
SecondHalf(series) == SubSeq(series, Mid(series) + 1, Len(series))

Stable == [trend |-> "stable", percent |-> 0]

InitTrend ==
    /\ pc = "_calculate_trend"
    /\ \E first \in TrendParts, second \in TrendParts :
           trend_data = first \o second
    /\ trend = Null
    /\ sales_data = Null /\ metric = Null /\ abc_result = Null
    /\ z_score = Null /\ severity = Null
    /\ data = Null /\ anomalies = Null
    /\ BasketIdle /\ CrossSellIdle /\ ForecastIdle
    /\ AccuracyIdle /\ RerunIdle /\ GoListIdle
    /\ XyzIdle /\ ReportIdle /\ HourlyIdle /\ ProfileIdle /\ SyncIdle

TrendRestUnchanged ==
    /\ UNCHANGED <<trend_data, abc_vars, severity_vars, daily_vars, basket_vars>>
    /\ UNCHANGED <<cross_sell_vars, forecast_vars, accuracy_vars, rerun_vars, go_list_vars>>
    /\ UNCHANGED <<xyz_vars, report_vars, hourly_vars, profile_vars, sync_vars>>

\* if len(data) < 14: return "stable", Decimal("0")
calculate_trend_short ==
    /\ pc = "_calculate_trend"
    /\ Len(trend_data) < 14
    /\ trend' = Stable
    /\ pc' = "trend_done"
    /\ TrendRestUnchanged

\* if first_half_avg == 0: return "stable", Decimal("0")
calculate_trend_zero ==
    /\ pc = "_calculate_trend"
    /\ Len(trend_data) >= 14
    /\ SeriesMean(FirstHalf(trend_data)).sign = 0
    /\ trend' = Stable
    /\ pc' = "trend_done"
    /\ TrendRestUnchanged

calculate_trend ==
    /\ pc = "_calculate_trend"
    /\ Len(trend_data) >= 14
    /\ SeriesMean(FirstHalf(trend_data)).sign # 0
    /\ \E change_percent \in {ChangePercent(SeriesMean(FirstHalf(trend_data)),
                                            SeriesMean(SecondHalf(trend_data)))} :
           trend' = [trend   |-> TrendOf(change_percent),
                     percent |-> QuantizeTenths(change_percent)]
    /\ pc' = "trend_done"
    /\ TrendRestUnchanged

NextTrend == calculate_trend_short \/ calculate_trend_zero \/ calculate_trend

SpecTrend == InitTrend /\ [][NextTrend]_vars

TrendDone == pc = "trend_done"

\* the sums of the two halves of the series, the second from index len // 2
FirstSum == SumSeq(SubSeq(trend_data, 1, Len(trend_data) \div 2))

SecondSum ==
    SumSeq(SubSeq(trend_data, Len(trend_data) \div 2 + 1, Len(trend_data)))

FirstLen == Len(trend_data) \div 2

SecondLen == Len(trend_data) - Len(trend_data) \div 2

\* the change of the mean from the first half to the second, as a share of
\* the first, is above (below) t percent:
\*   100 * (SecondSum / SecondLen - FirstSum / FirstLen)
\*       / (FirstSum / FirstLen)  >  t
ChangeAbove(t) ==
    IF FirstSum * SecondLen > 0
    THEN 100 * (SecondSum * FirstLen - FirstSum * SecondLen) > t * FirstSum * SecondLen
    ELSE 100 * (SecondSum * FirstLen - FirstSum * SecondLen) < t * FirstSum * SecondLen

ChangeBelow(t) ==
    IF FirstSum * SecondLen > 0
    THEN 100 * (SecondSum * FirstLen - FirstSum * SecondLen) < t * FirstSum * SecondLen
    ELSE 100 * (SecondSum * FirstLen - FirstSum * SecondLen) > t * FirstSum * SecondLen

\* C29: _calculate_trend returns ("stable", 0) for fewer than 14 points or
\* a first half of mean 0; otherwise "up" exactly when the mean of the
\* second half (from index len // 2) is more than 10 percent above the
\* mean of the first, "down" exactly when it is more than 10 percent
\* below, "stable" otherwise, the sign of the percent returned matching
\* the direction.
C29_TrendByPercentChange ==
    TrendDone =>
        IF Len(trend_data) < 14 \/ FirstSum = 0
        THEN trend = [trend |-> "stable", percent |-> 0]
        ELSE /\ trend.trend \in {"up", "down", "stable"}
             /\ trend.trend = "up" <=> ChangeAbove(10)
             /\ trend.trend = "down" <=> ChangeBelow(-10)
             /\ trend.trend = "up" => trend.percent > 0
             /\ trend.trend = "down" => trend.percent < 0

\* the same with the two thresholds themselves left to either side: a
\* change of exactly 10 (-10) percent may be reported as "up" ("down") or
\* as "stable"
C29_TrendUpToTheThresholds ==
    TrendDone =>
        IF Len(trend_data) < 14 \/ FirstSum = 0
        THEN trend = [trend |-> "stable", percent |-> 0]
        ELSE /\ trend.trend \in {"up", "down", "stable"}
             /\ ChangeAbove(10) => trend.trend = "up"
             /\ trend.trend = "up" => ~ChangeBelow(10)
             /\ ChangeBelow(-10) => trend.trend = "down"
             /\ trend.trend = "down" => ~ChangeAbove(-10)
             /\ trend.trend = "up" => trend.percent >= 100
             /\ trend.trend = "down" => trend.percent <= -100

\* a first week of 30 and a second week of 33: a change of exactly 10
\* percent
C29_ExactlyTenPercent ==
    /\ TrendDone
    /\ Len(trend_data) = 14
    /\ FirstSum = 30
    /\ SecondSum = 33
    /\ trend = [trend |-> "up", percent |-> 100]


-----------------------------------------------------------------------------
(* trigger_sync (api/v1/venues.py) and the Celery task sync_venue_data     *)
(* (services/sync/tasks.py, services/sync/iiko_sync.py)                    *)
(*                                                                         *)
(* sync_db is the venues row as committed, with the holder of its row      *)
(* lock: an UPDATE of a transaction waits while another transaction holds  *)
(* an uncommitted UPDATE of the row.  The request and the task each have   *)
(* a session of their own: loaded is the row as the session last read or   *)
(* wrote it, venue the attributes of its Venue object; a flush writes the  *)
(* attributes that differ from loaded.  sync_queue is the broker's queue.  *)
(* The request's session is committed when the request ends (get_db).      *)

SyncColumns == {"sync_status", "sync_error"}

VenueRows ==
    { [sync_status |-> "pending",     sync_error |-> "none"],
      [sync_status |-> "completed",   sync_error |-> "none"],
      [sync_status |-> "failed",      sync_error |-> "message"],
      [sync_status |-> "in_progress", sync_error |-> "none"] }

NotLoaded == [sync_status |-> "not loaded", sync_error |-> "not loaded"]

\* the columns a flush of the session writes
Dirty(session) == {c \in SyncColumns : session.venue[c] # session.loaded[c]}

\* the row after the UPDATE of those columns
Updated(row, session) ==
    [c \in SyncColumns |-> IF c \in Dirty(session) THEN session.venue[c] ELSE row[c]]

\* the UPDATE of a flush can run: no other transaction holds the row
CanWrite(session, who) ==
    Dirty(session) = {} \/ sync_db.lock \in {"none", who}

InitSync ==
    /\ pc = "trigger_sync"
    /\ \E row \in VenueRows, pos_type \in {"iiko", "rkeeper"}, configured \in BOOLEAN :
           sync_db = [venue |-> row, pos_type |-> pos_type,
                      configured |-> configured, lock |-> "none"]
    /\ \E full_sync \in BOOLEAN :
           sync_request = [pc |-> "_get_venue_or_404", full_sync |-> full_sync,
                           loaded |-> NotLoaded, venue |-> NotLoaded,
                           status_code |-> 0]
    /\ sync_task = [pc |-> "queued", full_sync |-> FALSE,
                    loaded |-> NotLoaded, venue |-> NotLoaded]
    /\ sync_queue = <<>>
    /\ sales_data = Null /\ metric = Null /\ abc_result = Null
    /\ z_score = Null /\ severity = Null
    /\ data = Null /\ anomalies = Null
    /\ BasketIdle /\ CrossSellIdle /\ ForecastIdle
    /\ AccuracyIdle /\ RerunIdle /\ GoListIdle
    /\ XyzIdle /\ ReportIdle /\ HourlyIdle /\ ProfileIdle /\ TrendIdle

SyncRestUnchanged ==
    /\ UNCHANGED <<pc, abc_vars, severity_vars, daily_vars, basket_vars>>
    /\ UNCHANGED <<cross_sell_vars, forecast_vars, accuracy_vars, rerun_vars, go_list_vars>>
    /\ UNCHANGED <<xyz_vars, report_vars, hourly_vars, profile_vars, trend_vars>>

\* if venue.sync_status == SyncStatus.IN_PROGRESS: raise HTTPException(409)
trigger_sync_rejects ==
    /\ sync_request.pc = "_get_venue_or_404"
    /\ sync_db.venue.sync_status = "in_progress"
    /\ sync_request' = [sync_request EXCEPT !.pc = "done", !.status_code = 409,
                           !.loaded = sync_db.venue, !.venue = sync_db.venue]
    /\ UNCHANGED <<sync_db, sync_task, sync_queue>>
    /\ SyncRestUnchanged

\* venue = await _get_venue_or_404(...);
\* sync_venue_data.delay(str(venue_id), full_sync=sync_request.full_sync)
trigger_sync_enqueues ==
    /\ sync_request.pc = "_get_venue_or_404"
    /\ sync_db.venue.sync_status # "in_progress"
    /\ sync_queue' = Append(sync_queue, [full_sync |-> sync_request.full_sync])
    /\ sync_request' = [sync_request EXCEPT !.pc = "flush",
                           !.loaded = sync_db.venue, !.venue = sync_db.venue]
    /\ UNCHANGED <<sync_db, sync_task>>
    /\ SyncRestUnchanged

\* venue.sync_status = SyncStatus.IN_PROGRESS; venue.sync_error = None;
\* await db.flush(): the UPDATE runs in the request's transaction
trigger_sync_flush ==
    /\ sync_request.pc = "flush"
    /\ sync_db.lock = "none"
    /\ sync_request' = [sync_request EXCEPT !.pc = "commit",
                           !.venue = [sync_status |-> "in_progress",
                                      sync_error  |-> "none"]]
    /\ sync_db' = [sync_db EXCEPT !.lock = "request"]
    /\ UNCHANGED <<sync_task, sync_queue>>
    /\ SyncRestUnchanged

\* the response is returned and the session of the request is committed
trigger_sync_commit ==
    /\ sync_request.pc = "commit"
    /\ sync_db' = [sync_db EXCEPT !.venue = Updated(sync_db.venue, sync_request),
                                  !.lock = "none"]
    /\ sync_request' = [sync_request EXCEPT !.pc = "done", !.status_code = 200,
                           !.loaded = sync_request.venue]
    /\ UNCHANGED <<sync_task, sync_queue>>
    /\ SyncRestUnchanged

\* the worker takes the message; result = await db.execute(select(Venue)...)
sync_venue_data_select ==
    /\ sync_task.pc = "queued"
    /\ sync_queue # <<>>
    /\ sync_queue' = Tail(sync_queue)
    /\ sync_task' = [sync_task EXCEPT !.pc = "mark", !.full_sync = Head(sync_queue).full_sync,
                        !.loaded = sync_db.venue, !.venue = sync_db.venue]
    /\ UNCHANGED <<sync_db, sync_request>>
    /\ SyncRestUnchanged

\* the session with its venue attributes set and committed
Committed(session, next_pc, attributes) ==
    [session EXCEPT !.pc = next_pc, !.venue = attributes, !.loaded = attributes]

\* venue.sync_status = SyncStatus.IN_PROGRESS; await db.commit()
sync_venue_data_mark ==
    /\ sync_task.pc = "mark"
    /\ \E marked \in {[sync_task EXCEPT !.venue.sync_status = "in_progress"]} :
           /\ CanWrite(marked, "task")
           /\ sync_db' = [sync_db EXCEPT !.venue = Updated(sync_db.venue, marked)]
           /\ sync_task' = Committed(marked, "dispatch", marked.venue)
    /\ UNCHANGED <<sync_request, sync_queue>>
    /\ SyncRestUnchanged

\* elif venue.pos_type == POSType.RKEEPER: FAILED, commit, return
sync_venue_data_rkeeper ==
    /\ sync_task.pc = "dispatch"
    /\ sync_db.pos_type = "rkeeper"
    /\ \E failed \in {[sync_task EXCEPT !.venue = [sync_status |-> "failed",
                                                  sync_error  |-> "message"]]} :
           /\ CanWrite(failed, "task")
           /\ sync_db' = [sync_db EXCEPT !.venue = Updated(sync_db.venue, failed)]
           /\ sync_task' = Committed(failed, "done", failed.venue)
    /\ UNCHANGED <<sync_request, sync_queue>>
    /\ SyncRestUnchanged

\* IikoSyncService(venue, db) raises ValueError; except Exception:
\* await db.rollback(); the venue is selected again
sync_venue_data_raises ==
    /\ sync_task.pc = "dispatch"
    /\ sync_db.pos_type = "iiko"
    /\ ~sync_db.configured
    /\ sync_task' = [sync_task EXCEPT !.pc = "except",
                        !.loaded = sync_db.venue, !.venue = sync_db.venue]
    /\ UNCHANGED <<sync_db, sync_request, sync_queue>>
    /\ SyncRestUnchanged

\* venue.sync_status = SyncStatus.FAILED; venue.sync_error = str(e);
\* await db.commit(); raise
sync_venue_data_except ==
    /\ sync_task.pc = "except"
    /\ \E failed \in {[sync_task EXCEPT !.venue = [sync_status |-> "failed",
                                                  sync_error  |-> "message"]]} :
           /\ CanWrite(failed, "task")
           /\ sync_db' = [sync_db EXCEPT !.venue = Updated(sync_db.venue, failed)]
           /\ sync_task' = Committed(failed, "done", failed.venue)
    /\ UNCHANGED <<sync_request, sync_queue>>
    /\ SyncRestUnchanged

\* sync_full / sync_incremental: COMPLETED, or FAILED when the iiko calls
\* raise; the attributes are set on the Venue object of the task's session
sync_venue_data_syncs ==
    /\ sync_task.pc = "dispatch"
    /\ sync_db.pos_type = "iiko"
    /\ sync_db.configured
    /\ \E outcome \in { [sync_status |-> "completed", sync_error |-> "none"],
                        [sync_status |-> "failed",    sync_error |-> "message"] } :
           sync_task' = [sync_task EXCEPT !.pc = "commit", !.venue = outcome]
    /\ UNCHANGED <<sync_db, sync_request, sync_queue>>
    /\ SyncRestUnchanged

\* await db.commit(); return stats
sync_venue_data_commit ==
    /\ sync_task.pc = "commit"
    /\ CanWrite(sync_task, "task")
    /\ sync_db' = [sync_db EXCEPT !.venue = Updated(sync_db.venue, sync_task)]
    /\ sync_task' = Committed(sync_task, "done", sync_task.venue)
    /\ UNCHANGED <<sync_request, sync_queue>>
    /\ SyncRestUnchanged

NextSync ==
    \/ trigger_sync_rejects
    \/ trigger_sync_enqueues
    \/ trigger_sync_flush
    \/ trigger_sync_commit
    \/ sync_venue_data_select
    \/ sync_venue_data_mark
    \/ sync_venue_data_rkeeper
    \/ sync_venue_data_raises
    \/ sync_venue_data_except
    \/ sync_venue_data_syncs
    \/ sync_venue_data_commit

SpecSync == InitSync /\ [][NextSync]_vars

\* the request has answered 200 and the task it enqueued has returned
BothFinished ==
    /\ sync_request.pc = "done"
    /\ sync_request.status_code = 200
    /\ sync_task.pc = "done"

\* C30: however a trigger_sync request and the sync_venue_data task it
\* enqueued interleave, once both have finished the venue's sync_status is
\* COMPLETED or FAILED and not IN_PROGRESS.
C30_SyncEndsCompletedOrFailed ==
    BothFinished => sync_db.venue.sync_status \in {"completed", "failed"}

\* the task never leaves IN_PROGRESS behind by itself: the status it
\* committed last is COMPLETED or FAILED
TaskEndsCompletedOrFailed ==
    sync_task.pc = "done" => sync_task.loaded.sync_status \in {"completed", "failed"}

\* the task has finished before the request writes
C30_TaskFinishedFirst ==
    /\ BothFinished
    /\ sync_db.venue.sync_status = "in_progress"
    /\ sync_task.loaded.sync_status = "failed"

=============================================================================
